---- MODULE Spec2Model ----
(***************************************************************************)
(* Model of polyepoxide-core's schema-driven sync (sync.rs): pull /        *)
(* pull_recursive / ensure_schema / ensure_nested_schemas / collect_bonds, *)
(* over two key -> bytes stores and the per-call schema Solvent.           *)
(*                                                                         *)
(* Bytes are modelled by the CBOR value they encode (ciborium::Value).     *)
(* A Structure is encoded to CBOR the way serde encodes the enum           *)
(* (Encode), decoded back by Decode, and a key is the hash of the bytes    *)
(* (KeyOf, a lookup in the table of all blobs of the modelled world).      *)
(* pull is an async fn that suspends at every store operation; each        *)
(* action below is one step of it, and the call stack is explicit.         *)
(***************************************************************************)
EXTENDS Naturals, Sequences, FiniteSets, TLC

\* Number of pull calls issued one after another against the same stores.
MaxPulls == 2

\* The deepest nesting of pull_recursive / ensure_schema calls that is
\* followed; no call on an honest source of the world comes near it.
MaxDepth == 8

NoKey == "none"

-----------------------------------------------------------------------------
(* ciborium::Value: the parsed form of a blob.                             *)

Text(s) == [c |-> "Text", s |-> s, key |-> NoKey, n |-> 0, items |-> <<>>, entries |-> <<>>]

Integer(i) == [c |-> "Integer", s |-> "", key |-> NoKey, n |-> i, items |-> <<>>, entries |-> <<>>]

\* A byte string of exactly 32 bytes: the encoding of a Key.
Link(k) == [c |-> "Bytes", s |-> "", key |-> k, n |-> 32, items |-> <<>>, entries |-> <<>>]

Arr(xs) == [c |-> "Array", s |-> "", key |-> NoKey, n |-> 0, items |-> xs, entries |-> <<>>]

E(mk, mv) == [k |-> mk, v |-> mv]

MapV(es) == [c |-> "Map", s |-> "", key |-> NoKey, n |-> 0, items |-> <<>>, entries |-> es]

-----------------------------------------------------------------------------
(* Structure and Bond<Structure>.  A bond is Unresolved(key) or            *)
(* Resolved(cell); cells are interned by key and immutable, so a resolved  *)
(* bond is its key plus the flag and its value is read from the solvent.   *)

Unresolved(k) == [key |-> k, resolved |-> FALSE]

Resolved(k) == [key |-> k, resolved |-> TRUE]

UnitKinds == {"Bool", "Char", "Unicode", "ByteString", "Unit"}

OneBondKinds == {"Sequence", "Bond"}

NamedKinds == {"Record", "Tagged"}

MapKinds == {"Map", "OrderedMap"}

SPrim(kind) == [kind |-> kind, names |-> <<>>, bonds |-> <<>>, n |-> 0]

SSequence(k) == [kind |-> "Sequence", names |-> <<>>, bonds |-> <<Unresolved(k)>>, n |-> 0]

SBond(k) == [kind |-> "Bond", names |-> <<>>, bonds |-> <<Unresolved(k)>>, n |-> 0]

STuple(ks) == [kind |-> "Tuple", names |-> <<>>, bonds |-> [i \in DOMAIN ks |-> Unresolved(ks[i])], n |-> 0]

SRecord(names, ks) == [kind |-> "Record", names |-> names, bonds |-> [i \in DOMAIN ks |-> Unresolved(ks[i])], n |-> 0]

STagged(names, ks) == [kind |-> "Tagged", names |-> names, bonds |-> [i \in DOMAIN ks |-> Unresolved(ks[i])], n |-> 0]

SMap(k, v) == [kind |-> "Map", names |-> <<>>, bonds |-> <<Unresolved(k), Unresolved(v)>>, n |-> 0]

SSelfRef(d) == [kind |-> "SelfRef", names |-> <<>>, bonds |-> <<>>, n |-> d]

\* Bond::key
BondKey(b) == b.key

\* serde's encoding of the Structure enum: a unit variant is its name, any
\* other variant a one-entry map from its name to the payload; a bond is
\* encoded as its key only, whatever its state.
Encode(st) ==
  IF st.kind \in UnitKinds THEN Text(st.kind)
  ELSE IF st.kind \in OneBondKinds
    THEN MapV(<<E(Text(st.kind), Link(BondKey(st.bonds[1])))>>)
  ELSE IF st.kind = "Tuple"
    THEN MapV(<<E(Text("Tuple"), Arr([i \in DOMAIN st.bonds |-> Link(BondKey(st.bonds[i]))]))>>)
  ELSE IF st.kind \in NamedKinds
    THEN MapV(<<E(Text(st.kind),
                  MapV([i \in DOMAIN st.bonds |-> E(Text(st.names[i]), Link(BondKey(st.bonds[i])))]))>>)
  ELSE IF st.kind \in MapKinds
    THEN MapV(<<E(Text(st.kind),
                  MapV(<<E(Text("key"), Link(BondKey(st.bonds[1]))),
                         E(Text("value"), Link(BondKey(st.bonds[2])))>>))>>)
  ELSE MapV(<<E(Text("SelfRef"), Integer(st.n))>>)

DecodeFail == [kind |-> "DecodeFail", names |-> <<>>, bonds |-> <<>>, n |-> 0]

IsLink(v) == v.c = "Bytes" /\ v.n = 32

AllLinks(xs) == \A i \in DOMAIN xs : IsLink(xs[i])

\* ciborium::from_reader::<Structure>: the inverse of Encode; every bond
\* comes out Unresolved; anything that is not the encoding of a Structure
\* is a decode error.
Decode(v) ==
  IF v.c = "Text"
    THEN IF v.s \in UnitKinds THEN SPrim(v.s) ELSE DecodeFail
  ELSE IF v.c = "Map" /\ Len(v.entries) = 1 /\ v.entries[1].k.c = "Text"
    THEN LET tag == v.entries[1].k.s
             p == v.entries[1].v
         IN IF tag \in OneBondKinds /\ IsLink(p)
              THEN [kind |-> tag, names |-> <<>>, bonds |-> <<Unresolved(p.key)>>, n |-> 0]
            ELSE IF tag = "Tuple" /\ p.c = "Array" /\ AllLinks(p.items)
              THEN STuple([i \in DOMAIN p.items |-> p.items[i].key])
            ELSE IF tag \in NamedKinds /\ p.c = "Map"
                    /\ \A i \in DOMAIN p.entries : p.entries[i].k.c = "Text" /\ IsLink(p.entries[i].v)
              THEN [kind |-> tag,
                    names |-> [i \in DOMAIN p.entries |-> p.entries[i].k.s],
                    bonds |-> [i \in DOMAIN p.entries |-> Unresolved(p.entries[i].v.key)],
                    n |-> 0]
            ELSE IF tag \in MapKinds /\ p.c = "Map" /\ Len(p.entries) = 2
                    /\ p.entries[1].k = Text("key") /\ p.entries[2].k = Text("value")
                    /\ IsLink(p.entries[1].v) /\ IsLink(p.entries[2].v)
              THEN [kind |-> tag, names |-> <<>>,
                    bonds |-> <<Unresolved(p.entries[1].v.key), Unresolved(p.entries[2].v.key)>>,
                    n |-> 0]
            ELSE IF tag = "SelfRef" /\ p.c = "Integer"
              THEN SSelfRef(p.n)
            ELSE DecodeFail
  ELSE DecodeFail

-----------------------------------------------------------------------------
(* The modelled world: the types and values of the repository's tests.     *)
(*   book    Author / Chapter / Book of sync.rs' tests, a DAG with shared  *)
(*           children and depth 3;                                         *)
(*   list    LinkedNode of tests/integration.rs, a recursive type whose    *)
(*           schema closes the cycle with SelfRef(0);                      *)
(*   holder  a record holding a Bond<Structure>, so that a Structure blob  *)
(*           is referenced as a value, and Structure values pulled under   *)
(*           the schema of Structure (sMeta, cut down to two variants);    *)
(*   misc    a tuple of a tagged union and a map with bonds as keys.       *)

SchemaDefs ==
  [ sUni         |-> SPrim("Unicode"),
    sAuthor      |-> SRecord(<<"name", "bio">>, <<"sUni", "sUni">>),
    sBondAuthor  |-> SBond("sAuthor"),
    sChapter     |-> SRecord(<<"title", "author">>, <<"sUni", "sBondAuthor">>),
    sBondChapter |-> SBond("sChapter"),
    sChapters    |-> SSequence("sBondChapter"),
    sBook        |-> SRecord(<<"title", "chapters">>, <<"sUni", "sChapters">>),
    sSelf0       |-> SSelfRef(0),
    sBondSelf    |-> SBond("sSelf0"),
    sNext        |-> SSequence("sBondSelf"),
    sNode        |-> SRecord(<<"value", "next">>, <<"sUni", "sNext">>),
    sUnit        |-> SPrim("Unit"),
    sMeta        |-> STagged(<<"Unit", "Bond">>, <<"sUnit", "sSelf0">>),
    sBondMeta    |-> SBond("sMeta"),
    sHolder      |-> SRecord(<<"ty">>, <<"sBondMeta">>),
    sTag         |-> STagged(<<"by", "anon">>, <<"sBondAuthor", "sUni">>),
    sDict        |-> SMap("sBondAuthor", "sBondAuthor"),
    sMisc        |-> STuple(<<"sTag", "sDict">>) ]

ValueDefs ==
  [ vA1   |-> MapV(<<E(Text("name"), Text("Alice")), E(Text("bio"), Text("one"))>>),
    vA2   |-> MapV(<<E(Text("name"), Text("Bob")), E(Text("bio"), Text("two"))>>),
    vC1   |-> MapV(<<E(Text("title"), Text("c1")), E(Text("author"), Link("vA1"))>>),
    vC2   |-> MapV(<<E(Text("title"), Text("c2")), E(Text("author"), Link("vA1"))>>),
    vC3   |-> MapV(<<E(Text("title"), Text("c3")), E(Text("author"), Link("vA2"))>>),
    vBook |-> MapV(<<E(Text("title"), Text("book")),
                     E(Text("chapters"), Arr(<<Link("vC1"), Link("vC2"), Link("vC3")>>))>>),
    vBook2 |-> MapV(<<E(Text("title"), Text("book2")),
                      E(Text("chapters"), Arr(<<Link("vC1"), Link("vC2")>>))>>),
    vN1   |-> MapV(<<E(Text("value"), Text("first")), E(Text("next"), Arr(<<>>))>>),
    vN2   |-> MapV(<<E(Text("value"), Text("second")), E(Text("next"), Arr(<<Link("vN1")>>))>>),
    vN3   |-> MapV(<<E(Text("value"), Text("third")), E(Text("next"), Arr(<<Link("vN2")>>))>>),
    vH1   |-> MapV(<<E(Text("ty"), Link("sUni"))>>),
    vH2   |-> MapV(<<E(Text("ty"), Link("sUnit"))>>),
    vMisc |-> Arr(<<MapV(<<E(Text("by"), Link("vA1"))>>),
                    MapV(<<E(Link("vA2"), Link("vA1"))>>)>>) ]

SchemaKeys == DOMAIN SchemaDefs

ValueKeys == DOMAIN ValueDefs

Keys == SchemaKeys \cup ValueKeys

\* The bytes of every blob of the world, by key.
Universe == [k \in Keys |-> IF k \in SchemaKeys THEN Encode(SchemaDefs[k]) ELSE ValueDefs[k]]

\* Key::from_data: the content hash of the bytes.
KeyOf(bytes) == CHOOSE k \in Keys : Universe[k] = bytes

\* Oxide::compute_key of a Structure: hash of its serialization.
ComputeKey(st) == KeyOf(Encode(st))

Scenarios ==
  [ book   |-> [keys  |-> {"sUni", "sAuthor", "sBondAuthor", "sChapter", "sBondChapter",
                           "sChapters", "sBook", "vA1", "vA2", "vC1", "vC2", "vC3", "vBook"},
                roots |-> {<<"vBook", "sBook">>, <<"vC1", "sChapter">>, <<"vA2", "sAuthor">>}],
    list   |-> [keys  |-> {"sUni", "sSelf0", "sBondSelf", "sNext", "sNode", "vN1", "vN2", "vN3"},
                roots |-> {<<"vN3", "sNode">>, <<"vN2", "sNode">>, <<"vN1", "sNode">>}],
    holder |-> [keys  |-> {"sUni", "sUnit", "sSelf0", "sMeta", "sBondMeta", "sHolder", "vH1", "vH2"},
                roots |-> {<<"vH1", "sHolder">>, <<"vH2", "sHolder">>,
                           <<"sUni", "sMeta">>, <<"sUnit", "sMeta">>}],
    misc   |-> [keys  |-> {"sUni", "sAuthor", "sBondAuthor", "sTag", "sDict", "sMisc",
                           "vA1", "vA2", "vMisc"},
                roots |-> {<<"vMisc", "sMisc">>, <<"vA1", "sAuthor">>, <<"vA2", "vA1">>}] ]

-----------------------------------------------------------------------------
(* The schema Solvent of one pull call: key -> interned Structure cell.     *)

\* Solvent::get::<Structure>(key).is_some()
SolventHas(S, k) == k \in DOMAIN S

\* SolventBondMapper::map_bond: an Unresolved bond whose key is interned is
\* upgraded to Resolved, otherwise left alone.  A Resolved bond has its
\* target added and is re-bound to the interned cell; the Structures pull
\* adds come from Decode, whose bonds are all Unresolved, and a Resolved
\* bond of this Solvent already points to the interned cell of its key.
MapBond(S, b) ==
  IF b.resolved THEN b
  ELSE IF SolventHas(S, b.key) THEN Resolved(b.key) ELSE b

\* Structure::map_bonds
MapBonds(S, st) == [st EXCEPT !.bonds = [i \in DOMAIN st.bonds |-> MapBond(S, st.bonds[i])]]

\* Solvent::add: an already interned key keeps its cell, otherwise the
\* rewritten value is interned under the key computed before rewriting.
SolventAdd(S, st) ==
  LET cid == ComputeKey(st)
  IN IF SolventHas(S, cid) THEN S
     ELSE [k \in DOMAIN S \cup {cid} |-> IF k = cid THEN MapBonds(S, st) ELSE S[k]]

-----------------------------------------------------------------------------
(* collect_bonds and ensure_nested_schemas' enumeration of the children.    *)

\* A concatenation that gives up at the first part that is empty.
RECURSIVE Flatten_stop(_)
Flatten_stop(ss) ==
  IF ss = <<>> THEN <<>> ELSE IF Head(ss) = <<>> THEN <<>> ELSE Head(ss) \o Flatten_stop(Tail(ss))

RECURSIVE Flatten(_)
Flatten(ss) == IF ss = <<>> THEN <<>> ELSE Head(ss) \o Flatten(Tail(ss))

\* The HashMap<&str, &Value> built from a CBOR map: entries whose key is
\* not text are dropped and a later duplicate replaces an earlier one.
\* Gives the index of the entry the map holds for the name, or 0.
FieldIndex(entries, name) ==
  LET hits == {i \in DOMAIN entries : entries[i].k.c = "Text" /\ entries[i].k.s = name}
  IN IF hits = {} THEN 0 ELSE CHOOSE i \in hits : \A j \in hits : j <= i

Min(a, b) == IF a < b THEN a ELSE b

\* The (target key, schema key) pairs of a value under a schema, in order.
\* A sub-schema is entered only through a Resolved bond (Bond::value).
RECURSIVE CollectBonds(_, _, _)
CollectBonds(value, st, S) ==
  IF st.kind = "Bond"
    THEN IF IsLink(value)
           THEN <<[key |-> value.key, schema |-> BondKey(st.bonds[1])]>>
           ELSE <<>>
  ELSE IF st.kind = "Record"
    THEN IF value.c = "Map"
           THEN Flatten([i \in DOMAIN st.bonds |->
                  LET j == FieldIndex(value.entries, st.names[i])
                  IN IF j # 0 /\ st.bonds[i].resolved
                       THEN CollectBonds(value.entries[j].v, S[st.bonds[i].key], S)
                       ELSE <<>>])
           ELSE <<>>
  ELSE IF st.kind = "Sequence"
    THEN IF value.c = "Array" /\ st.bonds[1].resolved
           THEN Flatten([i \in DOMAIN value.items |->
                  CollectBonds(value.items[i], S[st.bonds[1].key], S)])
           ELSE <<>>
  ELSE IF st.kind = "Tuple"
    THEN IF value.c = "Array"
           THEN Flatten([i \in 1..Min(Len(st.bonds), Len(value.items)) |->
                  IF st.bonds[i].resolved
                    THEN CollectBonds(value.items[i], S[st.bonds[i].key], S)
                    ELSE <<>>])
           ELSE <<>>
  ELSE IF st.kind = "Tagged"
    THEN IF value.c = "Map" /\ Len(value.entries) = 1 /\ value.entries[1].k.c = "Text"
           THEN LET hits == {i \in DOMAIN st.names : st.names[i] = value.entries[1].k.s}
                IN IF hits # {} /\ st.bonds[CHOOSE i \in hits : TRUE].resolved
                     THEN CollectBonds(value.entries[1].v,
                                       S[st.bonds[CHOOSE i \in hits : TRUE].key], S)
                     ELSE <<>>
           ELSE <<>>
  ELSE IF st.kind \in MapKinds
    THEN IF value.c = "Map" /\ st.bonds[1].resolved /\ st.bonds[2].resolved
           THEN Flatten([i \in DOMAIN value.entries |->
                  CollectBonds(value.entries[i].k, S[st.bonds[1].key], S)
                  \o CollectBonds(value.entries[i].v, S[st.bonds[2].key], S)])
           ELSE <<>>
  ELSE <<>>

\* ensure_nested_schemas without its Record | Tagged arm.
NestedKeys_noRecord(st) ==
  IF st.kind \in NamedKinds THEN <<>> ELSE [i \in DOMAIN st.bonds |-> BondKey(st.bonds[i])]

\* The keys ensure_nested_schemas visits, in order: the bonds of a compound
\* Structure; primitives, Enum and SelfRef have none.
NestedKeys(st) == [i \in DOMAIN st.bonds |-> BondKey(st.bonds[i])]

-----------------------------------------------------------------------------
(* State.                                                                   *)

VARIABLES
  source,       \* the source store: key -> bytes
  dest,         \* the destination store: key -> bytes
  stack,        \* call stack of the running pull, innermost frame first
  schemas,      \* the call's schema Solvent
  transferred,  \* the call's list of transferred keys
  status,       \* "idle", "running", "ok" or "err"
  result,       \* the value the last finished call returned
  args,         \* <<value_key, schema_key>> of the current or last call
  oplog,        \* the store operations the current or last call issued
  dest0,        \* dest as it was when the current or last call started
  prev,         \* arguments, outcome and transfer count of the call before
  ncalls        \* number of calls started

VARIABLES
  fault,        \* the last store error a store raised: side, operation, key, call
  other,        \* the suspended one of two concurrent pull calls
  cells,        \* the calling Solvent of add and persist: key -> cell
  pstore,       \* the store persist writes to
  persist,      \* the running or last persist call
  added         \* the last Solvent::add: its argument, the cell it returned

VARIABLES
  onecell,      \* a Cell shared by threads: its value and its OnceLock slot
  threads,      \* each thread's place in Cell::cid() and the key it got
  data,         \* the map of a store served to peers and used directly
  rpc           \* the last store call: how it was made, its request and its answer

VARIABLES
  walk,         \* one collect_bonds call: the payload, the schema and the refs it emitted
  swarm,        \* run_swarm: the commands, the pending requests and the swarm's events
  chat          \* ChatApp: mode, response channel, conversation, store

\* What the pull actions leave alone.
ext == <<fault, other, cells, pstore, persist, added>>

\* What the pull, Solvent and persist actions leave alone.
aux == <<onecell, threads, data, rpc, walk, swarm, chat>>

vars == <<source, dest, stack, schemas, transferred, status, result, args, oplog, dest0, prev, ncalls,
          fault, other, cells, pstore, persist, added, onecell, threads, data, rpc, walk, swarm, chat>>

Nil == [c |-> "Nil", s |-> "", key |-> NoKey, n |-> 0, items |-> <<>>, entries |-> <<>>]

\* A frame of pull_recursive (fn = "pull") or ensure_schema (fn = "ensure")
\* with its locals: dest_has and bytes, the schema cell ensure_schema gave
\* back (by key), the bonds still to pull, the nested schema keys still to
\* ensure and the parsed Structure.
Frame(fn, key, sk, pc) ==
  [fn |-> fn, key |-> key, schema_key |-> sk, pc |-> pc, dest_has |-> FALSE,
   bytes |-> Nil, cell |-> NoKey, bonds |-> <<>>, nested |-> <<>>, st |-> DecodeFail]

Top == Head(stack)

Running(fn, pc) == status = "running" /\ stack # <<>> /\ Top.fn = fn /\ Top.pc = pc

\* MemoryStore::has
StoreHas(store, k) == k \in DOMAIN store

\* A put that leaves the new entry alone in the map.
StorePut_alone(store, k, bytes) == [x \in {k} |-> bytes]

\* A put that keeps the bytes a key already has.
StorePut_keep(store, k, bytes) == [x \in DOMAIN store \cup {k} |-> IF x \in DOMAIN store THEN store[x] ELSE bytes]

\* MemoryStore::put: insert, replacing what the key held.
StorePut(store, k, bytes) == [x \in DOMAIN store \cup {k} |-> IF x = k THEN bytes ELSE store[x]]

\* A logged store operation: has and put go to dest, get goes to source;
\* role tells value from schema blobs, held whether dest held the key when
\* the operation was issued.
Op(op, k, role) == [op |-> op, key |-> k, role |-> role, held |-> StoreHas(dest, k)]

\* The `?` of a failed step: the whole call returns the error.
Fail(err) ==
  /\ status' = "err"
  /\ result' = err
  /\ stack' = <<>>

\* Ok(()) of the innermost pull_recursive; pull returns Ok(transferred)
\* when it was the outermost one.
ReturnFromPull(newTransferred) ==
  /\ stack' = Tail(stack)
  /\ IF Tail(stack) = <<>>
       THEN status' = "ok" /\ result' = [tag |-> "Ok", key |-> NoKey, list |-> newTransferred]
       ELSE UNCHANGED <<status, result>>

Err(tag, k) == [tag |-> tag, key |-> k, list |-> <<>>]

-----------------------------------------------------------------------------
(* Initial states: one scenario's blobs in source, all of them or all but   *)
(* one; dest holds the closure of at most one value and either no schema    *)
(* blob, the whole tree of one schema, or one root schema blob alone.       *)

RECURSIVE BytesKeys(_)
BytesKeys(v) ==
  IF IsLink(v) THEN {v.key}
  ELSE UNION ({BytesKeys(v.items[i]) : i \in DOMAIN v.items}
              \cup {BytesKeys(v.entries[i].k) \cup BytesKeys(v.entries[i].v) : i \in DOMAIN v.entries})

\* The keys a blob references.
Refs(k) == BytesKeys(Universe[k])

RECURSIVE Closure(_)
Closure(ks) ==
  LET next == ks \cup UNION {Refs(k) : k \in ks}
  IN IF next = ks THEN ks ELSE Closure(next)

Restrict(ks) == [k \in ks |-> Universe[k]]

DestSeeds(sc) ==
  LET keys == Scenarios[sc].keys
      vals == {{}} \cup {Closure({v}) : v \in keys \cap ValueKeys}
      schs == {{}} \cup {Closure({k}) : k \in keys \cap SchemaKeys}
                   \cup {{r[2]} : r \in Scenarios[sc].roots}
  IN {v \cup x : v \in vals, x \in schs}

\* The context of a call that has not started.
NoCall ==
  [stack |-> <<>>, schemas |-> <<>>, transferred |-> <<>>, status |-> "idle",
   result |-> Err("None", NoKey), args |-> <<NoKey, NoKey>>, oplog |-> <<>>]

\* No value, no cell.
NoVal == [type |-> "", data |-> <<>>, bonds |-> <<>>]

NoId == <<NoKey, 0>>

\* No bond.
NoBond == [key |-> NoKey, resolved |-> FALSE, cell |-> NoId, val |-> NoVal]

\* No call was made on the Solvent yet.
NoAdd ==
  [value |-> NoVal, key |-> NoKey, cell |-> NoId, n |-> 0, was |-> NoId, grew |-> 0,
   before |-> [key |-> NoKey, type |-> "", cell |-> NoId],
   op |-> "", arg |-> NoBond, T |-> "", ret |-> NoBond, got |-> NoId, first |-> <<>>,
   seen |-> <<>>]

\* No persist_cell was called yet.
NoPersist ==
  [status |-> "idle", key |-> NoKey, type |-> "", bytes |-> Nil, schema |-> NoKey,
   visited |-> {}, todo |-> {}, stack |-> <<>>, puts |-> <<>>, failed |-> NoKey,
   result |-> <<NoKey, NoKey>>]

\* No store has raised an error.
NoFault == [side |-> "none", op |-> "", key |-> NoKey, call |-> 0, at |-> 0]

\* No shared cell, no thread in Cell::cid().
NoCell == [value |-> NoVal, preset |-> NoKey, slot |-> NoKey, running |-> 0, writes |-> 0, computes |-> 0, waited |-> 0]

NoThreads == <<>>

NoResponse == [kind |-> "", found |-> <<>>, missing |-> <<>>, present |-> <<>>, cids |-> <<>>, message |-> ""]

\* No store call was made yet: how the last call was made (via), the
\* operation and its keys or (key, bytes) pairs, whether it was the
\* single-key form, the sub-operation at which the store failed (0: none),
\* the Result, the Response that carried it, the map before the call, and
\* every put applied so far.
NoRpc == [via |-> "", op |-> "", items |-> <<>>, single |-> FALSE, fail |-> 0, ok |-> TRUE, err |-> "",
          answer |-> <<>>, resp |-> NoResponse, before |-> <<>>, log |-> <<>>]

\* No collect_bonds call, no swarm task, no chat.
NoWalk == [fn |-> "", parsed |-> "", value |-> Nil, schema |-> NoKey, refs |-> <<>>, calls |-> <<>>]

NoSwarm == [on |-> FALSE]

NoChat == [on |-> FALSE]

RestIdle ==
  /\ walk = NoWalk
  /\ swarm = NoSwarm
  /\ chat = NoChat

AuxIdle ==
  /\ onecell = NoCell
  /\ threads = NoThreads
  /\ data = <<>>
  /\ rpc = NoRpc
  /\ RestIdle

\* Nothing but the shared cell and its threads.
ExtIdleButCell ==
  /\ fault = NoFault
  /\ other = NoCall
  /\ cells = <<>>
  /\ pstore = <<>>
  /\ persist = NoPersist
  /\ added = NoAdd
  /\ data = <<>>
  /\ rpc = NoRpc
  /\ RestIdle

\* No second call, no calling Solvent, no persist.
ExtIdle ==
  /\ fault = NoFault
  /\ other = NoCall
  /\ cells = <<>>
  /\ pstore = <<>>
  /\ persist = NoPersist
  /\ added = NoAdd
  /\ AuxIdle

Init ==
  \E sc \in DOMAIN Scenarios :
    \E missing \in Scenarios[sc].keys \cup {NoKey} :
      \E seed \in DestSeeds(sc) :
        /\ source = Restrict(Scenarios[sc].keys \ {missing})
        /\ dest = Restrict(seed)
        /\ dest0 = Restrict(seed)
        /\ stack = <<>>
        /\ schemas = <<>>
        /\ transferred = <<>>
        /\ status = "idle"
        /\ result = Err("None", NoKey)
        /\ args = <<NoKey, NoKey>>
        /\ oplog = <<>>
        /\ prev = [args |-> <<NoKey, NoKey>>, status |-> "idle", n |-> 0]
        /\ ncalls = 0
        /\ ExtIdle

\* The scenario whose blobs source holds.
Roots == UNION {Scenarios[sc].roots : sc \in {x \in DOMAIN Scenarios : DOMAIN source \subseteq Scenarios[x].keys}}

-----------------------------------------------------------------------------
(* pull: one action per store operation (and per local step between two).  *)

\* pull(source, dest, value_key, schema_key): a fresh transferred list and
\* a fresh Solvent, then pull_recursive on the root.
StartPull ==
  /\ status # "running"
  /\ ncalls < MaxPulls
  /\ \E r \in Roots :
       /\ args' = r
       /\ stack' = <<Frame("pull", r[1], r[2], "has")>>
  /\ prev' = [args |-> args, status |-> status, n |-> Len(transferred)]
  /\ schemas' = <<>>
  /\ transferred' = <<>>
  /\ oplog' = <<>>
  /\ dest0' = dest
  /\ status' = "running"
  /\ ncalls' = ncalls + 1
  /\ UNCHANGED <<source, dest, result>>
  /\ UNCHANGED ext
  /\ UNCHANGED aux

\* pull_recursive without the early return on dest.has.
AlreadySynced_never(d, k) == FALSE

\* pull_recursive, the dest.has check: a key dest holds is skipped with
\* its whole subgraph.
AlreadySynced(d, k) == StoreHas(d, k)

PullHas ==
  /\ Running("pull", "has")
  /\ oplog' = Append(oplog, Op("has", Top.key, "value"))
  /\ IF AlreadySynced(dest, Top.key)
       THEN ReturnFromPull(transferred)
       ELSE /\ stack' = <<[Top EXCEPT !.pc = "ensure"]>> \o Tail(stack)
            /\ UNCHANGED <<status, result>>
  /\ UNCHANGED <<source, dest, schemas, transferred, args, dest0, prev, ncalls>>
  /\ UNCHANGED ext
  /\ UNCHANGED aux

\* pull_recursive calls ensure_schema, which answers from the Solvent when
\* the key is interned and otherwise starts with dest.has.
PullEnsure ==
  /\ Running("pull", "ensure")
  /\ SolventHas(schemas, Top.schema_key) \/ Len(stack) < MaxDepth
  /\ IF SolventHas(schemas, Top.schema_key)
       THEN stack' = <<[Top EXCEPT !.pc = "get", !.cell = Top.schema_key]>> \o Tail(stack)
       ELSE stack' = <<Frame("ensure", Top.schema_key, NoKey, "has"),
                       [Top EXCEPT !.pc = "get"]>> \o Tail(stack)
  /\ UNCHANGED <<source, dest, schemas, transferred, status, result, args, oplog, dest0, prev, ncalls>>
  /\ UNCHANGED ext
  /\ UNCHANGED aux

\* ensure_schema: let dest_has = dest.has(key)
EnsureHas ==
  /\ Running("ensure", "has")
  /\ oplog' = Append(oplog, Op("has", Top.key, "schema"))
  /\ stack' = <<[Top EXCEPT !.pc = "get", !.dest_has = StoreHas(dest, Top.key)]>> \o Tail(stack)
  /\ UNCHANGED <<source, dest, schemas, transferred, status, result, args, dest0, prev, ncalls>>
  /\ UNCHANGED ext
  /\ UNCHANGED aux

\* ensure_schema: source.get(key), NotFound when source has no such blob.
EnsureGet ==
  /\ Running("ensure", "get")
  /\ oplog' = Append(oplog, Op("get", Top.key, "schema"))
  /\ IF StoreHas(source, Top.key)
       THEN /\ stack' = <<[Top EXCEPT !.pc = "put", !.bytes = source[Top.key]]>> \o Tail(stack)
            /\ UNCHANGED <<status, result>>
       ELSE Fail(Err("NotFound", Top.key))
  /\ UNCHANGED <<source, dest, schemas, transferred, args, dest0, prev, ncalls>>
  /\ UNCHANGED ext
  /\ UNCHANGED aux

\* ensure_schema: `if !dest_has { put; transferred.push(key) }`, the list.
EnsureTransferred(list, k, dest_has) == IF dest_has THEN list ELSE Append(list, k)

\* ensure_schema: the put when dest lacked the key, then the parse of the
\* bytes as a Structure (Format on failure).
EnsurePut ==
  /\ Running("ensure", "put")
  /\ IF Top.dest_has
       THEN UNCHANGED <<dest, oplog>>
       ELSE /\ dest' = StorePut(dest, Top.key, Top.bytes)
            /\ oplog' = Append(oplog, Op("put", Top.key, "schema"))
  /\ transferred' = EnsureTransferred(transferred, Top.key, Top.dest_has)
  /\ LET st == Decode(Top.bytes)
     IN IF st = DecodeFail
          THEN Fail(Err("Format", NoKey))
          ELSE /\ stack' = <<[Top EXCEPT !.pc = "nested", !.st = st, !.nested = NestedKeys(st)]>>
                              \o Tail(stack)
               /\ UNCHANGED <<status, result>>
  /\ UNCHANGED <<source, schemas, args, dest0, prev, ncalls>>
  /\ UNCHANGED ext
  /\ UNCHANGED aux

\* ensure_nested_schemas: the next nested key, ensured unless the Solvent
\* already holds it.
EnsureNested ==
  /\ Running("ensure", "nested")
  /\ Top.nested # <<>>
  /\ SolventHas(schemas, Head(Top.nested)) \/ Len(stack) < MaxDepth
  /\ LET k == Head(Top.nested)
         me == [Top EXCEPT !.nested = Tail(Top.nested)]
     IN IF SolventHas(schemas, k)
          THEN stack' = <<me>> \o Tail(stack)
          ELSE stack' = <<Frame("ensure", k, NoKey, "has"), me>> \o Tail(stack)
  /\ UNCHANGED <<source, dest, schemas, transferred, status, result, args, oplog, dest0, prev, ncalls>>
  /\ UNCHANGED ext
  /\ UNCHANGED aux

\* ensure_schema: Ok(schemas.add(schema)); the cell goes to the caller
\* (pull_recursive keeps it, ensure_nested_schemas drops it).
EnsureAdd ==
  /\ Running("ensure", "nested")
  /\ Top.nested = <<>>
  /\ schemas' = SolventAdd(schemas, Top.st)
  /\ LET caller == Head(Tail(stack))
         cell == ComputeKey(Top.st)
     IN stack' = <<IF caller.fn = "pull" THEN [caller EXCEPT !.cell = cell] ELSE caller>>
                 \o Tail(Tail(stack))
  /\ UNCHANGED <<source, dest, transferred, status, result, args, oplog, dest0, prev, ncalls>>
  /\ UNCHANGED ext
  /\ UNCHANGED aux

\* pull_recursive: source.get(value_key) (NotFound when absent), the parse
\* of the value and collect_bonds under the schema cell.
PullGet ==
  /\ Running("pull", "get")
  /\ oplog' = Append(oplog, Op("get", Top.key, "value"))
  /\ IF StoreHas(source, Top.key)
       THEN /\ stack' = <<[Top EXCEPT !.pc = "bonds", !.bytes = source[Top.key],
                                      !.bonds = CollectBonds(source[Top.key], schemas[Top.cell], schemas)]>>
                         \o Tail(stack)
            /\ UNCHANGED <<status, result>>
       ELSE Fail(Err("NotFound", Top.key))
  /\ UNCHANGED <<source, dest, schemas, transferred, args, dest0, prev, ncalls>>
  /\ UNCHANGED ext
  /\ UNCHANGED aux

\* pull_recursive: the loop over the bonds, one recursive call each.
PullBonds ==
  /\ Running("pull", "bonds")
  /\ Top.bonds # <<>>
  /\ Len(stack) < MaxDepth
  /\ LET b == Head(Top.bonds)
     IN stack' = <<Frame("pull", b.key, b.schema, "has"), [Top EXCEPT !.bonds = Tail(Top.bonds)]>>
                 \o Tail(stack)
  /\ UNCHANGED <<source, dest, schemas, transferred, status, result, args, oplog, dest0, prev, ncalls>>
  /\ UNCHANGED ext
  /\ UNCHANGED aux

\* pull_recursive: dest.put(value_key, value_bytes), transferred.push.
PullPut ==
  /\ Running("pull", "bonds")
  /\ Top.bonds = <<>>
  /\ dest' = StorePut(dest, Top.key, Top.bytes)
  /\ transferred' = Append(transferred, Top.key)
  /\ oplog' = Append(oplog, Op("put", Top.key, "value"))
  /\ ReturnFromPull(Append(transferred, Top.key))
  /\ UNCHANGED <<source, schemas, args, dest0, prev, ncalls>>
  /\ UNCHANGED ext
  /\ UNCHANGED aux

Next ==
  \/ StartPull
  \/ PullHas
  \/ PullEnsure
  \/ EnsureHas
  \/ EnsureGet
  \/ EnsurePut
  \/ EnsureNested
  \/ EnsureAdd
  \/ PullGet
  \/ PullBonds
  \/ PullPut

Spec == Init /\ [][Next]_vars

-----------------------------------------------------------------------------
(* Stores that fail, and calls that are dropped.  AsyncStore's operations   *)
(* return Result<_, Self::Error>: any has, get or put may answer Err(e).    *)
(* A failed put is taken to have written nothing.                           *)

\* map_err(SyncError::Dest) with the Source tag.
DestErr_asSource(k) == Err("Source", k)

\* map_err(SyncError::Dest) on dest.async_has and dest.async_put; the
\* store's error e is named by the key of the failed operation.
DestErr(k) == Err("Dest", k)

\* map_err(SyncError::Source) on source.async_get
SourceErr(k) == Err("Source", k)

Role == IF Top.fn = "pull" THEN "value" ELSE "schema"

\* dest.async_has or dest.async_put answers Err(e): at the has of
\* pull_recursive and of ensure_schema, at ensure_schema's put (issued when
\* dest lacked the key) and at pull_recursive's put after the bonds.
DestError ==
  /\ status = "running"
  /\ stack # <<>>
  /\ \/ Top.pc = "has"
     \/ Top.fn = "ensure" /\ Top.pc = "put" /\ ~Top.dest_has
     \/ Top.fn = "pull" /\ Top.pc = "bonds" /\ Top.bonds = <<>>
  /\ LET op == IF Top.pc = "has" THEN "has" ELSE "put"
     IN /\ oplog' = Append(oplog, Op(op, Top.key, Role))
        /\ fault' = [side |-> "dest", op |-> op, key |-> Top.key, call |-> ncalls,
                     at |-> Len(oplog) + 1]
  /\ Fail(DestErr(Top.key))
  /\ UNCHANGED <<source, dest, schemas, transferred, args, dest0, prev, ncalls>>
  /\ UNCHANGED <<other, cells, pstore, persist, added>>
  /\ UNCHANGED aux

\* source.async_get answers Err(e), in ensure_schema or pull_recursive.
SourceError ==
  /\ status = "running"
  /\ stack # <<>>
  /\ Top.pc = "get"
  /\ oplog' = Append(oplog, Op("get", Top.key, Role))
  /\ fault' = [side |-> "source", op |-> "get", key |-> Top.key, call |-> ncalls,
               at |-> Len(oplog) + 1]
  /\ Fail(SourceErr(Top.key))
  /\ UNCHANGED <<source, dest, schemas, transferred, args, dest0, prev, ncalls>>
  /\ UNCHANGED <<other, cells, pstore, persist, added>>
  /\ UNCHANGED aux

\* The caller drops the future of pull while it waits for a store
\* operation: the call ends there, what it wrote stays.
Cancel ==
  /\ status = "running"
  /\ status' = "cancelled"
  /\ result' = Err("Cancelled", NoKey)
  /\ stack' = <<>>
  /\ UNCHANGED <<source, dest, schemas, transferred, args, oplog, dest0, prev, ncalls>>
  /\ UNCHANGED ext
  /\ UNCHANGED aux

\* The first call of a caller that retries.
FirstPull ==
  /\ status = "idle"
  /\ StartPull

\* The caller retries the call that was dropped or returned an error:
\* pull again with the same arguments, once.
Retry ==
  /\ status \in {"cancelled", "err"}
  /\ prev.status = "idle"
  /\ StartPull
  /\ args' = args

\* Source holds the whole graph of one scenario.
FaultInit ==
  /\ Init
  /\ \E sc \in DOMAIN Scenarios : DOMAIN source = Scenarios[sc].keys

NextFaults ==
  \/ FirstPull
  \/ Retry
  \/ PullHas
  \/ PullEnsure
  \/ EnsureHas
  \/ EnsureGet
  \/ EnsurePut
  \/ EnsureNested
  \/ EnsureAdd
  \/ PullGet
  \/ PullBonds
  \/ PullPut
  \/ DestError
  \/ SourceError
  \/ Cancel

SpecFaults == FaultInit /\ [][NextFaults]_vars

-----------------------------------------------------------------------------
(* Two pull calls against the same dest, run by one executor: the call in   *)
(* stack, schemas, ... is the one being polled, `other` is the one that     *)
(* waits.  The executor may change over between any two steps, so the calls *)
(* interleave at their store operations.                                    *)

\* The state one pull call owns.
Context ==
  [stack |-> stack, schemas |-> schemas, transferred |-> transferred, status |-> status,
   result |-> result, args |-> args, oplog |-> oplog]

\* The call being polled waits for a store operation (every has, get and
\* put is an .await), or has not started, or has returned.
AtAwait ==
  IF status # "running" THEN TRUE
  ELSE IF Top.pc \in {"has", "get"} THEN TRUE
  ELSE IF Top.fn = "ensure" THEN Top.pc = "put" /\ ~Top.dest_has
  ELSE Top.pc = "bonds" /\ Top.bonds = <<>>

\* The executor polls the other call.  Creating a call touches no store,
\* so the second call is created before the first is polled, if at all.
Switch ==
  /\ AtAwait
  /\ (status = "running" \/ other.status \in {"running", "idle"})
  /\ (other.status = "idle" => oplog = <<>>)
  /\ other' = Context
  /\ stack' = other.stack
  /\ schemas' = other.schemas
  /\ transferred' = other.transferred
  /\ status' = other.status
  /\ result' = other.result
  /\ args' = other.args
  /\ oplog' = other.oplog
  /\ UNCHANGED <<source, dest, dest0, prev, ncalls, fault, cells, pstore, persist, added>>
  /\ UNCHANGED aux

\* Source holds the whole graph of one scenario; dest holds the Structure
\* blobs of the scenario's types (earlier pulls of other values of these
\* types left them there) and no value or one value with all it links to.
ConcInit ==
  /\ FaultInit
  /\ DOMAIN source \cap SchemaKeys \subseteq DOMAIN dest

NextConc ==
  \/ Next
  \/ Switch

SpecConc == ConcInit /\ [][NextConc]_vars

-----------------------------------------------------------------------------
(* The calling Solvent and the values handed to it.  A value is a Rust      *)
(* struct of a type T: Oxide with its scalar fields (data) and its bonds in *)
(* declaration order; a bond is Unresolved(key) or Resolved(cell), and the  *)
(* cell it points to carries its value.                                     *)

\* Number of Solvent::add calls made on the calling Solvent.
MaxAdds == 2

\* The Oxide types of the values: the field that holds the bonds (none for
\* Author), whether it is a Vec / Option of bonds or one bond, the type the
\* bonds point to, and the key of T::schema().  Person is a second struct
\* with Author's fields, so its values have the bytes of an Author.
TypeInfo ==
  [ Author     |-> [field |-> "",         many |-> FALSE, target |-> "",           schema |-> "sAuthor"],
    Person     |-> [field |-> "",         many |-> FALSE, target |-> "",           schema |-> "sAuthor"],
    Chapter    |-> [field |-> "author",   many |-> FALSE, target |-> "Author",     schema |-> "sChapter"],
    Book       |-> [field |-> "chapters", many |-> TRUE,  target |-> "Chapter",    schema |-> "sBook"],
    LinkedNode |-> [field |-> "next",     many |-> TRUE,  target |-> "LinkedNode", schema |-> "sNode"] ]

\* The types that have a value with the bytes of the blob.
TypesOf ==
  [ vA1 |-> {"Author", "Person"}, vA2 |-> {"Author"},
    vC1 |-> {"Chapter"}, vC2 |-> {"Chapter"},
    vBook2 |-> {"Book"},
    vN1 |-> {"LinkedNode"}, vN2 |-> {"LinkedNode"}, vN3 |-> {"LinkedNode"} ]

SolventKeys == DOMAIN TypesOf

\* Bond::from_cid(key)
BondFromCid(k) == [key |-> k, resolved |-> FALSE, cell |-> NoId, val |-> NoVal]

\* Bond::new(value): Resolved, to a fresh cell that no Solvent holds; k is
\* what the cell's key slot will hold, the key of the value.
BondNew(k, v) == [key |-> k, resolved |-> TRUE, cell |-> NoId, val |-> v]

\* Bond::from_cell that gives an Unresolved bond.
BondFromCell_unresolved(k, id) == [key |-> k, resolved |-> FALSE, cell |-> NoId, val |-> NoVal]

\* Bond::from_cell(cell) of a cell the Solvent holds.
BondFromCell(k, id) == [key |-> k, resolved |-> TRUE, cell |-> id, val |-> NoVal]

\* Bond::cid(): the key of an Unresolved bond, the key slot of the cell of
\* a Resolved one.
BondCid(b) == b.key

\* Oxide::to_bytes: serde writes the fields in declaration order, a bond as
\* its key only, a Vec or Option of bonds as an array.
ToBytes(v) ==
  LET ti == TypeInfo[v.type]
  IN IF ti.field = "" THEN MapV(v.data)
     ELSE MapV(v.data \o <<E(Text(ti.field),
                             IF ti.many THEN Arr([i \in DOMAIN v.bonds |-> Link(BondCid(v.bonds[i]))])
                             ELSE Link(BondCid(v.bonds[1])))>>)

\* Oxide::compute_cid that gives one key for every value.
ComputeCid_const(v) == "vA1"

\* Oxide::compute_cid: the hash of to_bytes.
ComputeCid(v) == KeyOf(ToBytes(v))

\* The keys a value blob links to, in the order of the bytes.
LinkSeq(bytes) ==
  Flatten([i \in DOMAIN bytes.entries |->
             LET x == bytes.entries[i].v
             IN IF IsLink(x) THEN <<x.key>>
                ELSE IF x.c = "Array" THEN [j \in DOMAIN x.items |-> x.items[j].key]
                ELSE <<>>])

\* The scalar fields of the value with these bytes.
DataOf(bytes, T) ==
  SelectSeq(bytes.entries, LAMBDA e : e.k.s # TypeInfo[T].field)

\* Every way to build the bonds: each Unresolved, or Resolved to a cell
\* with one of the values of its key.
RECURSIVE BondChoices(_, _, _)
BondChoices(links, vals, i) ==
  IF i > Len(links) THEN {<<>>}
  ELSE {<<b>> \o rest : b \in {BondFromCid(links[i])} \cup {BondNew(links[i], v) : v \in vals[i]},
                        rest \in BondChoices(links, vals, i + 1)}

\* The values of type T that have the bytes of blob k.
RECURSIVE ValuesOf(_, _)
ValuesOf(k, T) ==
  LET links == LinkSeq(Universe[k])
      vals == [i \in DOMAIN links |-> ValuesOf(links[i], TypeInfo[T].target)]
  IN {[type |-> T, data |-> DataOf(Universe[k], T), bonds |-> bs] : bs \in BondChoices(links, vals, 1)}

\* The values a caller hands to add.
Values == UNION {UNION {ValuesOf(k, T) : T \in TypesOf[k]} : k \in SolventKeys}

\* Solvent::get::<T>(cid).is_some(): a cell is interned under the key and
\* downcasts to Cell<T>.
SolventGet(S, k, T) == k \in DOMAIN S /\ S[k].type = T

\* Solvent::add without the lookup of an existing cell.
Existing_never(S, k, T) == FALSE

\* Solvent::add: `if let Some(existing) = self.cells.get(&cid)` with a
\* successful downcast to Cell<T>.
Existing(S, k, T) == SolventGet(S, k, T)

\* Solvent::add and SolventBondMapper::map_bond over the bonds of a value
\* from the i-th on.  Add gives the Solvent after the call; the cell it
\* returns is the one then interned under the key.  A cell is named by its
\* key and by how many cells were interned under that key up to it.
RECURSIVE Add(_, _), MapBondsFrom(_, _, _, _)
Add(S, v) ==
  LET cid == ComputeCid(v)
  IN IF Existing(S, cid, v.type) THEN S
     ELSE LET r == MapBondsFrom(S, v.bonds, TypeInfo[v.type].target, 1)
              id == <<cid, IF cid \in DOMAIN r.S THEN r.S[cid].id[2] + 1 ELSE 1>>
              cell == [id |-> id, type |-> v.type, data |-> v.data, bonds |-> r.bonds]
          IN [k \in DOMAIN r.S \cup {cid} |-> IF k = cid THEN cell ELSE r.S[k]]

MapBondsFrom(S, bs, T, i) ==
  IF i > Len(bs) THEN [S |-> S, bonds |-> <<>>]
  ELSE LET b == bs[i]
           S1 == IF b.resolved THEN Add(S, b.val) ELSE S
           nb == IF b.resolved THEN BondFromCell(ComputeCid(b.val), S1[ComputeCid(b.val)].id)
                 ELSE IF SolventGet(S, b.key, T) THEN BondFromCell(b.key, S[b.key].id)
                 ELSE b
           rest == MapBondsFrom(S1, bs, T, i + 1)
       IN [S |-> rest.S, bonds |-> <<nb>> \o rest.bonds]

\* The cell that was first interned under each (key, type), kept from f
\* and extended by what the Solvent S holds.
FirstInterned(f, S) ==
  [kt \in DOMAIN f \cup {<<k, S[k].type>> : k \in DOMAIN S} |->
     IF kt \in DOMAIN f THEN f[kt] ELSE S[kt[1]].id]

\* The record of a call add(v) or bond(v) on the Solvent: the value, its
\* key, the cell returned, the cell of that type the Solvent held under the
\* key before, by how many entries the Solvent grew, the add before this
\* one, the bond returned (bond only), and the cell first interned under
\* each (key, type).
AddedBy(op, v) ==
  LET k == ComputeCid(v)
      S == Add(cells, v)
  IN [value |-> v, key |-> k, cell |-> S[k].id, n |-> added.n + 1,
      was |-> IF SolventGet(cells, k, v.type) THEN cells[k].id ELSE NoId,
      grew |-> Cardinality(DOMAIN S) - Cardinality(DOMAIN cells),
      before |-> [key |-> added.key, type |-> added.value.type, cell |-> added.cell],
      op |-> op, arg |-> NoBond, T |-> v.type,
      ret |-> IF op = "bond" THEN BondFromCell(k, S[k].id) ELSE NoBond,
      got |-> NoId,
      first |-> FirstInterned(added.first, S),
      seen |-> <<>>]

\* let cell = solvent.add(value)
AddValue ==
  /\ persist.status = "idle"
  /\ added.n < MaxAdds
  /\ \E v \in Values :
       /\ cells' = Add(cells, v)
       /\ added' = AddedBy("add", v)
  /\ UNCHANGED <<source, dest, stack, schemas, transferred, status, result, args, oplog, dest0, prev, ncalls>>
  /\ UNCHANGED <<fault, other, pstore, persist>>
  /\ UNCHANGED aux

\* let bond = solvent.bond(value): add_and_bond, Bond::from_cell of the
\* cell add returns.
BondValue ==
  /\ persist.status = "idle"
  /\ added.n < MaxAdds
  /\ \E v \in Values :
       /\ cells' = Add(cells, v)
       /\ added' = AddedBy("bond", v)
  /\ UNCHANGED <<source, dest, stack, schemas, transferred, status, result, args, oplog, dest0, prev, ncalls>>
  /\ UNCHANGED <<fault, other, pstore, persist>>
  /\ UNCHANGED aux

\* Solvent::get::<T>(cid): the interned cell, or None.
SolventGetCell(S, k, T) == IF SolventGet(S, k, T) THEN S[k].id ELSE NoId

\* Solvent::resolve with an upgrade of every Unresolved bond.
Resolve_always(S, b, T) == BondFromCell(b.key, IF b.key \in DOMAIN S THEN S[b.key].id ELSE NoId)

\* Solvent::resolve::<T>(&bond)
Resolve(S, b, T) ==
  IF b.resolved THEN b
  ELSE IF SolventGet(S, b.key, T) THEN BondFromCell(b.key, S[b.key].id)
  ELSE b

\* The (key, type) pairs a caller asks for: each key under each type that
\* has a value with the bytes of its blob.
Typed == UNION {{<<k, T>> : T \in TypesOf[k]} : k \in SolventKeys}

\* The bonds a caller holds: Unresolved to any key, Resolved to a fresh
\* cell of a value without bonds, Resolved to a cell of the Solvent.
BondArgs ==
  {[bond |-> BondFromCid(kt[1]), T |-> kt[2]] : kt \in Typed}
    \cup {[bond |-> BondNew(ComputeCid(v), v), T |-> v.type] : v \in {w \in Values : w.bonds = <<>>}}
    \cup {[bond |-> BondFromCell(k, cells[k].id), T |-> cells[k].type] : k \in DOMAIN cells}

\* let r = solvent.resolve(&bond)
ResolveBond ==
  /\ persist.status = "idle"
  /\ \E a \in BondArgs :
       added' = [added EXCEPT !.op = "resolve", !.arg = a.bond, !.T = a.T,
                              !.ret = Resolve(cells, a.bond, a.T), !.got = NoId,
                              !.seen = <<>>]
  /\ UNCHANGED <<source, dest, stack, schemas, transferred, status, result, args, oplog, dest0, prev, ncalls>>
  /\ UNCHANGED <<fault, other, cells, pstore, persist>>
  /\ UNCHANGED aux

\* let c = solvent.get::<T>(&cid)
GetCell ==
  /\ persist.status = "idle"
  /\ \E kt \in Typed :
       added' = [added EXCEPT !.op = "get", !.arg = BondFromCid(kt[1]), !.T = kt[2],
                              !.ret = NoBond, !.got = SolventGetCell(cells, kt[1], kt[2]),
                              !.seen = <<>>]
  /\ UNCHANGED <<source, dest, stack, schemas, transferred, status, result, args, oplog, dest0, prev, ncalls>>
  /\ UNCHANGED <<fault, other, cells, pstore, persist>>
  /\ UNCHANGED aux

-----------------------------------------------------------------------------
(* Solvent::persist_cell, one action per store.put.  `persist` holds the    *)
(* call: the visited set, the Structure cells of the temporary schema       *)
(* Solvent still to be written, the nested map_bonds calls of               *)
(* PersistingMapper as a stack of the bonds each has still to map, and the  *)
(* keys of the value blobs put so far, in order.                            *)

\* The key of T::schema().
SchemaCid(T) == ComputeKey(SchemaDefs[TypeInfo[T].schema])

\* schema_solvent.add(T::schema()): T::schema() is built with Bond::new,
\* so add interns the Structure and every Structure below it.
SchemaSolventKeys(T) == Closure({SchemaCid(T)})

\* The value of an interned cell.
CellValue(c) == [type |-> c.type, data |-> c.data, bonds |-> c.bonds]

\* map_bonds that hands no bond to the mapper.
BondsToMap_none(v) == <<>>

\* What map_bonds hands to the mapper for a value: its bonds in declaration
\* order; the mapper reads a bond's cid and looks it up under the bond's
\* target type.
BondsToMap(v) == [i \in DOMAIN v.bonds |-> [key |-> BondCid(v.bonds[i]), type |-> TypeInfo[v.type].target]]

\* The cells a caller can pass: Cell::new(value) of any value (its key is
\* computed from the value), or a cell the Solvent returned.
RootCells ==
  {[key |-> ComputeCid(v), value |-> v] : v \in Values}
    \cup {[key |-> k, value |-> CellValue(cells[k])] : k \in DOMAIN cells}

\* persist_value's entry, reached when the last Structure cell is written:
\* a visited key returns Ok at once, otherwise the key is marked and the
\* bonds of the value go to the mapper.
EnterValue(p, bonds) ==
  IF p.todo # {} THEN p
  ELSE IF p.key \in p.visited
    THEN [p EXCEPT !.status = "ok", !.result = <<p.key, p.schema>>]
  ELSE [p EXCEPT !.status = "values", !.visited = p.visited \cup {p.key}, !.stack = <<bonds>>]

\* solvent.persist_cell(&cell, &store): a fresh visited set and the
\* temporary schema Solvent.
PersistCell ==
  /\ persist.status = "idle"
  /\ \E c \in RootCells :
       persist' = [NoPersist EXCEPT !.status = "schemas", !.key = c.key, !.type = c.value.type,
                                    !.bytes = ToBytes(c.value), !.schema = SchemaCid(c.value.type),
                                    !.todo = SchemaSolventKeys(c.value.type),
                                    !.stack = <<BondsToMap(c.value)>>]
  /\ added' = NoAdd
  /\ UNCHANGED <<source, dest, stack, schemas, transferred, status, result, args, oplog, dest0, prev, ncalls>>
  /\ UNCHANGED <<fault, other, cells, pstore>>
  /\ UNCHANGED aux

\* The loop over schema_solvent.cells, a HashMap, so in any order:
\* store.put of one Structure cell's bytes, visited.insert.
PersistSchema ==
  /\ persist.status = "schemas"
  /\ \E k \in persist.todo :
       /\ pstore' = StorePut(pstore, k, Encode(SchemaDefs[k]))
       /\ persist' = EnterValue([persist EXCEPT !.todo = persist.todo \ {k},
                                                !.visited = persist.visited \cup {k}],
                                persist.stack[1])
  /\ UNCHANGED <<source, dest, stack, schemas, transferred, status, result, args, oplog, dest0, prev, ncalls>>
  /\ UNCHANGED <<fault, other, cells, added>>
  /\ UNCHANGED aux

\* PersistingMapper::map_bond on the next bond of the innermost map_bonds:
\* a visited cid is passed over; otherwise it is marked, and when the
\* Solvent holds a cell of the bond's type under it, the cell's bytes are
\* put and the cell's own bonds are mapped next.
PersistBond ==
  /\ persist.status = "values"
  /\ Head(persist.stack) # <<>>
  /\ LET b == Head(Head(persist.stack))
         rest == <<Tail(Head(persist.stack))>> \o Tail(persist.stack)
     IN IF b.key \in persist.visited
          THEN /\ persist' = [persist EXCEPT !.stack = rest]
               /\ UNCHANGED pstore
          ELSE IF SolventGet(cells, b.key, b.type)
            THEN /\ pstore' = StorePut(pstore, b.key, ToBytes(CellValue(cells[b.key])))
                 /\ persist' = [persist EXCEPT !.visited = persist.visited \cup {b.key},
                                               !.puts = Append(persist.puts, b.key),
                                               !.stack = <<BondsToMap(CellValue(cells[b.key]))>> \o rest]
            ELSE /\ persist' = [persist EXCEPT !.visited = persist.visited \cup {b.key}, !.stack = rest]
                 /\ UNCHANGED pstore
  /\ UNCHANGED <<source, dest, stack, schemas, transferred, status, result, args, oplog, dest0, prev, ncalls>>
  /\ UNCHANGED <<fault, other, cells, added>>
  /\ UNCHANGED aux

\* A nested cell.value().map_bonds(self) has mapped its last bond.
PersistReturn ==
  /\ persist.status = "values"
  /\ Head(persist.stack) = <<>>
  /\ Len(persist.stack) > 1
  /\ persist' = [persist EXCEPT !.stack = Tail(persist.stack)]
  /\ UNCHANGED <<source, dest, stack, schemas, transferred, status, result, args, oplog, dest0, prev, ncalls>>
  /\ UNCHANGED <<fault, other, cells, pstore, added>>
  /\ UNCHANGED aux

\* persist_value after map_bonds: store.put of the value itself, and
\* persist_cell's Ok((cell.cid(), schema_cid)).
PersistPut ==
  /\ persist.status = "values"
  /\ persist.stack = <<<<>>>>
  /\ pstore' = StorePut(pstore, persist.key, persist.bytes)
  /\ persist' = [persist EXCEPT !.status = "ok", !.stack = <<>>,
                                !.puts = Append(persist.puts, persist.key),
                                !.result = <<persist.key, persist.schema>>]
  /\ UNCHANGED <<source, dest, stack, schemas, transferred, status, result, args, oplog, dest0, prev, ncalls>>
  /\ UNCHANGED <<fault, other, cells, added>>
  /\ UNCHANGED aux

\* store.put answers Err(e): in the loop over the Structure cells and at
\* the value's own put the `?` returns it; in the mapper it is kept in
\* mapper.error, every later map_bond returns at once and persist_value
\* returns it after map_bonds.  The failed put writes nothing.
PersistPutError ==
  /\ \/ /\ persist.status = "schemas"
        /\ \E k \in persist.todo : persist' = [persist EXCEPT !.status = "err", !.failed = k]
     \/ /\ persist.status = "values"
        /\ Head(persist.stack) # <<>>
        /\ LET b == Head(Head(persist.stack))
           IN /\ b.key \notin persist.visited
              /\ SolventGet(cells, b.key, b.type)
              /\ persist' = [persist EXCEPT !.status = "err", !.failed = b.key, !.stack = <<>>,
                                            !.visited = persist.visited \cup {b.key}]
     \/ /\ persist.status = "values"
        /\ persist.stack = <<<<>>>>
        /\ persist' = [persist EXCEPT !.status = "err", !.failed = persist.key, !.stack = <<>>]
  /\ UNCHANGED <<source, dest, stack, schemas, transferred, status, result, args, oplog, dest0, prev, ncalls>>
  /\ UNCHANGED <<fault, other, cells, pstore, added>>
  /\ UNCHANGED aux

\* No pull is made.
PullIdle ==
  /\ source = <<>>
  /\ dest = <<>>
  /\ dest0 = <<>>
  /\ stack = <<>>
  /\ schemas = <<>>
  /\ transferred = <<>>
  /\ status = "idle"
  /\ result = Err("None", NoKey)
  /\ args = <<NoKey, NoKey>>
  /\ oplog = <<>>
  /\ prev = [args |-> <<NoKey, NoKey>>, status |-> "idle", n |-> 0]
  /\ ncalls = 0

\* Solvent::new() and a MemoryStore that is empty or holds one chapter and
\* its author from an earlier persist.
SolventInit ==
  /\ PullIdle
  /\ fault = NoFault
  /\ other = NoCall
  /\ cells = <<>>
  /\ pstore \in {<<>>, Restrict(Closure({"vC1"}))}
  /\ persist = NoPersist
  /\ added = NoAdd
  /\ AuxIdle

NextSolvent ==
  \/ AddValue
  \/ PersistCell
  \/ PersistSchema
  \/ PersistBond
  \/ PersistReturn
  \/ PersistPut
  \/ PersistPutError

SpecSolvent == SolventInit /\ [][NextSolvent]_vars

\* Every Resolved bond below the value points to the cell the Solvent holds
\* under its key.
RECURSIVE Current(_, _)
Current(S, v) ==
  \A i \in DOMAIN v.bonds :
    LET b == v.bonds[i]
    IN b.resolved => IF b.cell = NoId THEN Current(S, b.val)
                     ELSE /\ b.key \in DOMAIN S
                          /\ S[b.key].id = b.cell
                          /\ Current(S, CellValue(S[b.key]))

\* Oxide::visit_bonds of a value, bond by bond in declaration order:
\* Bond::visit_bonds calls the visitor with the bond's cid and, when the
\* bond is Resolved, goes on into the value of its cell.
RECURSIVE VisitBonds(_, _)
VisitBonds(S, v) ==
  Flatten([i \in DOMAIN v.bonds |->
             LET b == v.bonds[i]
             IN <<BondCid(b)>> \o
                (IF ~b.resolved THEN <<>>
                 ELSE IF b.cell = NoId THEN VisitBonds(S, b.val)
                 ELSE VisitBonds(S, CellValue(S[b.key])))])

\* value.visit_bonds(&mut collector) of the value last handed to add, or
\* cell.value().visit_bonds(&mut collector) of a cell of the Solvent.
VisitValue ==
  /\ persist.status = "idle"
  /\ \E x \in (IF added.n >= 1 THEN {[key |-> added.key, value |-> added.value]} ELSE {})
             \cup {[key |-> k, value |-> CellValue(cells[k])] : k \in DOMAIN cells} :
       /\ Current(cells, x.value)
       /\ added' = [added EXCEPT !.op = "visit", !.arg = BondFromCid(x.key), !.T = x.value.type,
                                 !.ret = NoBond, !.got = NoId,
                                 !.seen = VisitBonds(cells, x.value)]
  /\ UNCHANGED <<source, dest, stack, schemas, transferred, status, result, args, oplog, dest0, prev, ncalls>>
  /\ UNCHANGED <<fault, other, cells, pstore, persist>>
  /\ UNCHANGED aux

\* The Solvent alone: add, bond, resolve and get in any order.
ArenaInit == SolventInit /\ pstore = <<>>

NextArena ==
  \/ AddValue
  \/ BondValue
  \/ ResolveBond
  \/ GetCell
  \/ VisitValue

SpecArena == ArenaInit /\ [][NextArena]_vars

-----------------------------------------------------------------------------
(* Notions the properties are stated in.                                    *)

\* Every key reachable from k by following the links of the blobs.
Reach(k) == Closure({k})

\* Completeness-on-presence of a store, for its value blobs.
Complete(store) == \A k \in DOMAIN store \cap ValueKeys : Refs(k) \subseteq DOMAIN store

\* The keys the call has put, in write order.
RECURSIVE PutKeys(_)
PutKeys(log) ==
  IF log = <<>> THEN <<>>
  ELSE IF Head(log).op = "put" THEN <<Head(log).key>> \o PutKeys(Tail(log))
  ELSE PutKeys(Tail(log))

Written == DOMAIN dest \ DOMAIN dest0

NoneBytes == [c |-> "None", s |-> "", key |-> NoKey, n |-> 0, items |-> <<>>, entries |-> <<>>]

\* What store.get(k) answers.
Get(store, k) == IF k \in DOMAIN store THEN store[k] ELSE NoneBytes

-----------------------------------------------------------------------------
(* Cell: a value and a OnceLock<Cid>.  Threads share one cell and call      *)
(* cid() on it.  OnceLock::get_or_init runs at most one initializer at a    *)
(* time: a caller that finds the slot set reads it, one that finds it empty *)
(* and no initializer running runs the closure, any other blocks until the  *)
(* slot is set.                                                             *)

MaxThreads == 3

Threads == 1..MaxThreads

\* Cell::new(value): the slot is empty.
CellNew(v) == [NoCell EXCEPT !.value = v]

\* Cell::with_cid(value, cid): the slot is set on construction.
CellWithCid(v, k) == [NoCell EXCEPT !.value = v, !.preset = k, !.slot = k, !.writes = 1]

\* get_or_init where every caller that finds the slot empty runs the
\* closure.
GetOrInit_racy(c) == IF c.slot # NoKey THEN "done" ELSE "init"

\* OnceLock::get_or_init as a caller enters it: read the slot, run the
\* closure, or block.
GetOrInit(c) == IF c.slot # NoKey THEN "done" ELSE IF c.running = 0 THEN "init" ELSE "wait"

\* A thread calls cell.cid().
CidCall(t) ==
  /\ threads[t].pc \in {"idle", "done"}
  /\ LET pc == GetOrInit(onecell)
     IN /\ threads' = [threads EXCEPT ![t] = [pc |-> pc, got |-> IF pc = "done" THEN onecell.slot ELSE NoKey]]
        /\ onecell' = IF pc = "init" THEN [onecell EXCEPT !.running = t]
                      ELSE IF pc = "wait" THEN [onecell EXCEPT !.waited = 1]
                      ELSE onecell
  /\ UNCHANGED <<source, dest, stack, schemas, transferred, status, result, args, oplog, dest0, prev, ncalls>>
  /\ UNCHANGED <<ext, data, rpc, walk, swarm, chat>>

\* The initializer: || self.value.compute_cid(), stored into the slot.
CidInit(t) ==
  /\ threads[t].pc = "init"
  /\ LET k == ComputeCid(onecell.value)
     IN /\ onecell' = [onecell EXCEPT !.slot = k, !.running = 0,
                                      !.writes = Min(onecell.writes + 1, 2),
                                      !.computes = Min(onecell.computes + 1, 2)]
        /\ threads' = [threads EXCEPT ![t] = [pc |-> "done", got |-> k]]
  /\ UNCHANGED <<source, dest, stack, schemas, transferred, status, result, args, oplog, dest0, prev, ncalls>>
  /\ UNCHANGED <<ext, data, rpc, walk, swarm, chat>>

\* A blocked caller goes on once the slot is set.
CidWake(t) ==
  /\ threads[t].pc = "wait"
  /\ onecell.slot # NoKey
  /\ threads' = [threads EXCEPT ![t] = [pc |-> "done", got |-> onecell.slot]]
  /\ UNCHANGED <<source, dest, stack, schemas, transferred, status, result, args, oplog, dest0, prev, ncalls>>
  /\ UNCHANGED <<ext, data, rpc, onecell, walk, swarm, chat>>

\* One cell, made by Cell::new or by Cell::with_cid with any key, shared by
\* the threads.
CellInit ==
  /\ PullIdle
  /\ ExtIdleButCell
  /\ onecell \in {CellNew(v) : v \in Values} \cup {CellWithCid(v, k) : v \in Values, k \in SolventKeys}
  /\ threads = [t \in Threads |-> [pc |-> "idle", got |-> NoKey]]

NextCell == \E t \in Threads : CidCall(t) \/ CidInit(t) \/ CidWake(t)

SpecCell == CellInit /\ [][NextCell]_vars

-----------------------------------------------------------------------------
(* Stores: MemoryStore, the default batch operations of AsyncStore, the     *)
(* handler that serves a store to peers and RemoteStore, the store that     *)
(* sends every operation to such a handler.  A store other than MemoryStore *)
(* may fail: `f` is the position of the single-key operation of a call that *)
(* fails, 0 when none does.                                                 *)

MaxBatch == 2

MaxPuts == 3

StoreKeys == {"vA1", "vA2"}

\* put does not look at the bytes: any blob goes under any key.
StoreBlobs == {Universe[k] : k \in StoreKeys}

RECURSIVE SeqsUpTo(_, _)
SeqsUpTo(S, n) ==
  IF n = 0 THEN {<<>>}
  ELSE LET shorter == SeqsUpTo(S, n - 1)
       IN shorter \cup {Append(s, x) : s \in {y \in shorter : Len(y) = n - 1}, x \in S}

StoreOk(results, S) == [ok |-> TRUE, err |-> "", results |-> results, store |-> S, resp |-> NoResponse]

StoreErr(e, S) == [ok |-> FALSE, err |-> e, results |-> <<>>, store |-> S, resp |-> NoResponse]

\* async_get_many that pushes each result in front of the earlier ones.
RECURSIVE GetMany_rev(_, _, _, _, _)
GetMany_rev(S, cids, f, i, results) ==
  IF i > Len(cids) THEN StoreOk(results, S)
  ELSE IF f = i THEN StoreErr("store", S)
  ELSE GetMany_rev(S, cids, f, i + 1, <<Get(S, cids[i])>> \o results)

\* AsyncStore::async_get_many, the default: for cid in &cids
\* { results.push(self.async_get(cid).await?) }.
RECURSIVE GetMany(_, _, _, _, _)
GetMany(S, cids, f, i, results) ==
  IF i > Len(cids) THEN StoreOk(results, S)
  ELSE IF f = i THEN StoreErr("store", S)
  ELSE GetMany(S, cids, f, i + 1, Append(results, Get(S, cids[i])))

\* AsyncStore::async_has_many, the default.
RECURSIVE HasMany(_, _, _, _, _)
HasMany(S, cids, f, i, results) ==
  IF i > Len(cids) THEN StoreOk(results, S)
  ELSE IF f = i THEN StoreErr("store", S)
  ELSE HasMany(S, cids, f, i + 1, Append(results, StoreHas(S, cids[i])))

\* AsyncStore::async_put_many, the default: for (cid, value) in &nodes
\* { self.async_put(cid, value).await? }.
RECURSIVE PutMany(_, _, _, _)
PutMany(S, nodes, f, i) ==
  IF i > Len(nodes) THEN StoreOk(<<>>, S)
  ELSE IF f = i THEN StoreErr("store", S)
  ELSE PutMany(StorePut(S, nodes[i][1], nodes[i][2]), nodes, f, i + 1)

\* The loop of handle_request that puts every requested key into found.
RECURSIVE Nodes_allfound(_, _, _, _, _)
Nodes_allfound(cids, results, i, found, missing) ==
  IF i > Min(Len(cids), Len(results))
    THEN [NoResponse EXCEPT !.kind = "Nodes", !.found = found, !.missing = missing]
  ELSE Nodes_allfound(cids, results, i + 1, Append(found, <<cids[i], results[i]>>), missing)

\* The loop of handle_request over cids.into_iter().zip(results):
\* Some(data) goes to found with its key, None sends the key to missing.
RECURSIVE Nodes(_, _, _, _, _)
Nodes(cids, results, i, found, missing) ==
  IF i > Min(Len(cids), Len(results))
    THEN [NoResponse EXCEPT !.kind = "Nodes", !.found = found, !.missing = missing]
  ELSE IF results[i] # NoneBytes
    THEN Nodes(cids, results, i + 1, Append(found, <<cids[i], results[i]>>), missing)
  ELSE Nodes(cids, results, i + 1, found, Append(missing, cids[i]))

ErrorResponse == [NoResponse EXCEPT !.kind = "Error", !.message = "store"]

\* Request::Get { cids }, Request::Has { cids } or Request::Put { nodes }.
Request(kind, items) ==
  [kind |-> kind, cids |-> IF kind = "Put" THEN <<>> ELSE items, nodes |-> IF kind = "Put" THEN items ELSE <<>>]

\* handle_request(store, request): the Response and the store afterwards.
HandleRequest(S, request, f) ==
  IF request.kind = "Get"
    THEN LET r == GetMany(S, request.cids, f, 1, <<>>)
         IN [resp |-> IF r.ok THEN Nodes(request.cids, r.results, 1, <<>>, <<>>) ELSE ErrorResponse,
             store |-> r.store]
  ELSE IF request.kind = "Has"
    THEN LET r == HasMany(S, request.cids, f, 1, <<>>)
         IN [resp |-> IF r.ok THEN [NoResponse EXCEPT !.kind = "Has", !.present = r.results] ELSE ErrorResponse,
             store |-> r.store]
  ELSE LET r == PutMany(S, request.nodes, f, 1)
       IN [resp |-> IF r.ok
                      THEN [NoResponse EXCEPT !.kind = "Stored",
                                              !.cids = [i \in 1..Len(request.nodes) |-> request.nodes[i][1]]]
                      ELSE ErrorResponse,
           store |-> r.store]

\* found.into_iter().collect::<HashMap<_, _>>(): a later entry of a key
\* replaces an earlier one.
RECURSIVE FoundMap(_, _)
FoundMap(found, m) ==
  IF found = <<>> THEN m ELSE FoundMap(Tail(found), StorePut(m, Head(found)[1], Head(found)[2]))

\* What RemoteStore makes of a Response that is not the one it waits for.
RemoteErr(resp, S) ==
  IF resp.kind = "Error" THEN StoreErr("Remote", S) ELSE StoreErr("UnexpectedResponse", S)

\* RemoteStore::async_get_many that hands out the found bytes as they come.
RemoteGetMany_found(S, cids, f) ==
  LET h == HandleRequest(S, Request("Get", cids), f)
  IN IF h.resp.kind = "Nodes"
       THEN [StoreOk([i \in 1..Len(h.resp.found) |-> h.resp.found[i][2]], h.store) EXCEPT !.resp = h.resp]
     ELSE [RemoteErr(h.resp, h.store) EXCEPT !.resp = h.resp]

\* RemoteStore::async_get_many: one Get request, answered by handle_request
\* over S; the results are looked up in found, key by key.
RemoteGetMany(S, cids, f) ==
  LET h == HandleRequest(S, Request("Get", cids), f)
  IN IF h.resp.kind = "Nodes"
       THEN [StoreOk([i \in 1..Len(cids) |-> Get(FoundMap(h.resp.found, <<>>), cids[i])], h.store)
               EXCEPT !.resp = h.resp]
     ELSE [RemoteErr(h.resp, h.store) EXCEPT !.resp = h.resp]

\* RemoteStore::async_has_many.
RemoteHasMany(S, cids, f) ==
  LET h == HandleRequest(S, Request("Has", cids), f)
  IN [IF h.resp.kind = "Has" THEN StoreOk(h.resp.present, h.store) ELSE RemoteErr(h.resp, h.store)
        EXCEPT !.resp = h.resp]

\* RemoteStore::async_put_many.
RemotePutMany(S, nodes, f) ==
  LET h == HandleRequest(S, Request("Put", nodes), f)
  IN [IF h.resp.kind = "Stored" THEN StoreOk(<<>>, h.store) ELSE RemoteErr(h.resp, h.store)
        EXCEPT !.resp = h.resp]

\* RemoteStore::async_get: results.into_iter().next().flatten().
RemoteGet(S, k, f) ==
  LET r == RemoteGetMany(S, <<k>>, f)
  IN IF r.ok THEN [r EXCEPT !.results = <<IF r.results = <<>> THEN NoneBytes ELSE r.results[1]>>] ELSE r

\* RemoteStore::async_has: results.into_iter().next().unwrap_or(false).
RemoteHas(S, k, f) ==
  LET r == RemoteHasMany(S, <<k>>, f)
  IN IF r.ok THEN [r EXCEPT !.results = <<IF r.results = <<>> THEN FALSE ELSE r.results[1]>>] ELSE r

\* RemoteStore::async_put.
RemotePut(S, k, bytes, f) == RemotePutMany(S, <<<<k, bytes>>>>, f)

\* The requests of a call: keys for get and has, (key, bytes) pairs for put.
ItemsOf(op, n) ==
  IF op = "put" THEN SeqsUpTo(StoreKeys \X StoreBlobs, n) ELSE SeqsUpTo(StoreKeys, n)

StoreOps == {"get", "put", "has"}

\* The call as the variables keep it.
Called(via, op, items, single, f, r, resp) ==
  [via |-> via, op |-> op, items |-> items, single |-> single, fail |-> f, ok |-> r.ok, err |-> r.err,
   answer |-> r.results, resp |-> resp, before |-> data,
   log |-> IF via = "store" /\ op = "put" THEN rpc.log \o items ELSE rpc.log]

StoreUnchanged ==
  /\ UNCHANGED <<source, dest, stack, schemas, transferred, status, result, args, oplog, dest0, prev, ncalls>>
  /\ UNCHANGED <<ext, onecell, threads, walk, swarm, chat>>

\* MemoryStore::get, put or has; no call fails (Error = Infallible).  The
\* puts made so far are kept, up to MaxPuts of them.
StoreOp ==
  \E op \in StoreOps : \E items \in ItemsOf(op, 1) :
    /\ Len(items) = 1
    /\ Len(rpc.log) + (IF op = "put" THEN 1 ELSE 0) <= MaxPuts
    /\ LET r == IF op = "get" THEN StoreOk(<<Get(data, items[1])>>, data)
                ELSE IF op = "has" THEN StoreOk(<<StoreHas(data, items[1])>>, data)
                ELSE StoreOk(<<>>, StorePut(data, items[1][1], items[1][2]))
       IN /\ data' = r.store
          /\ rpc' = Called("store", op, items, TRUE, 0, r, NoResponse)
    /\ StoreUnchanged

\* A default batch operation on a store whose single-key operation may fail.
BatchOp ==
  \E op \in StoreOps : \E items \in ItemsOf(op, MaxBatch) : \E f \in 0..Len(items) :
    /\ LET r == IF op = "get" THEN GetMany(data, items, f, 1, <<>>)
                ELSE IF op = "has" THEN HasMany(data, items, f, 1, <<>>)
                ELSE PutMany(data, items, f, 1)
       IN /\ data' = r.store
          /\ rpc' = Called("batch", op, items, FALSE, f, r, NoResponse)
    /\ StoreUnchanged

\* A call on a RemoteStore whose requests handle_request answers over the
\* store, the single-key form or the batch form: the Result, and the
\* Response of handle_request that carried it.
RemoteOp ==
  \E op \in StoreOps : \E single \in BOOLEAN :
    \E items \in ItemsOf(op, IF single THEN 1 ELSE MaxBatch) : \E f \in 0..Len(items) :
      /\ single => Len(items) = 1
      /\ LET r == IF single
                    THEN IF op = "get" THEN RemoteGet(data, items[1], f)
                         ELSE IF op = "has" THEN RemoteHas(data, items[1], f)
                         ELSE RemotePut(data, items[1][1], items[1][2], f)
                  ELSE IF op = "get" THEN RemoteGetMany(data, items, f)
                  ELSE IF op = "has" THEN RemoteHasMany(data, items, f)
                  ELSE RemotePutMany(data, items, f)
         IN /\ data' = r.store
            /\ rpc' = Called("remote", op, items, single, f, r, r.resp)
      /\ StoreUnchanged

\* MemoryStore::new(): the map is empty.
StoreInit ==
  /\ PullIdle
  /\ fault = NoFault
  /\ other = NoCall
  /\ cells = <<>>
  /\ pstore = <<>>
  /\ persist = NoPersist
  /\ added = NoAdd
  /\ AuxIdle

NextMemoryStore == StoreOp

\* One MemoryStore and the calls made on it.
SpecMemoryStore == StoreInit /\ [][NextMemoryStore]_vars

NextStore == BatchOp \/ RemoteOp

\* One store used through the default batch operations and served to a
\* RemoteStore.
SpecStore == StoreInit /\ [][NextStore]_vars

-----------------------------------------------------------------------------
(* pull from a source that is not content-addressed: MemoryStore::put takes *)
(* any bytes under any key, so a source may hold under one key the bytes of *)
(* another blob, and with them links that lead back to the key.             *)

\* The blobs of a scenario with the bytes of blob `as` stored under `k`.
Forged(sc, k, as) ==
  [x \in Scenarios[sc].keys |-> IF x = k THEN Universe[as] ELSE Universe[x]]

ForgedInit ==
  \E sc \in DOMAIN Scenarios :
    \E k \in Scenarios[sc].keys : \E as \in Scenarios[sc].keys \ {k} :
      /\ source = Forged(sc, k, as)
      /\ dest = <<>>
      /\ dest0 = <<>>
      /\ stack = <<>>
      /\ schemas = <<>>
      /\ transferred = <<>>
      /\ status = "idle"
      /\ result = Err("None", NoKey)
      /\ args = <<NoKey, NoKey>>
      /\ oplog = <<>>
      /\ prev = [args |-> <<NoKey, NoKey>>, status |-> "idle", n |-> 0]
      /\ ncalls = 0
      /\ ExtIdle

SpecForged == ForgedInit /\ [][Next]_vars

\* The executor keeps polling the future of a pull: a call that can take a
\* step takes it.
SpecForgedLive == ForgedInit /\ [][Next]_vars /\ WF_vars(Next)

-----------------------------------------------------------------------------
(* collect_bonds as a function: sync::collect_bonds over ciborium::Value    *)
(* and traverse::collect_bonds over Ipld, applied to payloads that match    *)
(* the schema and to payloads that do not.                                  *)

\* Ipld::Link(cid): in an Ipld a link is a node of its own kind, and the
\* keys of an Ipld::Map are strings.
IpldLink(k) == [c |-> "Link", s |-> "", key |-> k, n |-> 0, items |-> <<>>, entries |-> <<>>]

\* A Solvent holding every schema of the world, nested ones added first:
\* every bond is Resolved.
WalkSchemas ==
  [k \in SchemaKeys |->
     [SchemaDefs[k] EXCEPT !.bonds = [i \in DOMAIN SchemaDefs[k].bonds |-> Resolved(SchemaDefs[k].bonds[i].key)]]]

\* The invocations of traverse::collect_bonds, in order, each with its
\* value and the key of its schema: the call itself and the calls it makes.
RECURSIVE TraverseCalls(_, _, _)
TraverseCalls(value, sk, S) ==
  LET st == S[sk]
      me == <<[value |-> value, schema |-> sk]>>
  IN IF st.kind = "Record"
       THEN IF value.c = "Map"
              THEN me \o Flatten([i \in DOMAIN st.bonds |->
                     LET j == FieldIndex(value.entries, st.names[i])
                     IN IF j # 0 /\ st.bonds[i].resolved
                          THEN TraverseCalls(value.entries[j].v, st.bonds[i].key, S)
                          ELSE <<>>])
              ELSE me
     ELSE IF st.kind = "Sequence"
       THEN IF value.c = "Array" /\ st.bonds[1].resolved
              THEN me \o Flatten([i \in DOMAIN value.items |->
                     TraverseCalls(value.items[i], st.bonds[1].key, S)])
              ELSE me
     ELSE IF st.kind = "Tuple"
       THEN IF value.c = "Array"
              THEN me \o Flatten([i \in 1..Min(Len(st.bonds), Len(value.items)) |->
                     IF st.bonds[i].resolved
                       THEN TraverseCalls(value.items[i], st.bonds[i].key, S)
                       ELSE <<>>])
              ELSE me
     ELSE IF st.kind = "Tagged"
       THEN IF value.c = "Map" /\ Len(value.entries) = 1
              THEN LET hits == {i \in DOMAIN st.names : st.names[i] = value.entries[1].k.s}
                   IN IF hits # {} /\ st.bonds[CHOOSE i \in hits : TRUE].resolved
                        THEN me \o TraverseCalls(value.entries[1].v,
                                                 st.bonds[CHOOSE i \in hits : TRUE].key, S)
                        ELSE me
              ELSE me
     ELSE IF st.kind \in MapKinds
       THEN IF value.c = "Map" /\ st.bonds[1].resolved /\ st.bonds[2].resolved
              THEN me \o Flatten([i \in DOMAIN value.entries |->
                     TraverseCalls(value.entries[i].v, st.bonds[2].key, S)])
              ELSE me
     ELSE me

\* traverse::collect_bonds: the Bond arm pushes (target, inner schema) when
\* its value is an Ipld::Link; no other arm pushes.
TraverseCollectBonds(value, sk, S) ==
  LET calls == TraverseCalls(value, sk, S)
      links == SelectSeq(calls, LAMBDA c : S[c.schema].kind = "Bond" /\ c.value.c = "Link")
  IN [i \in DOMAIN links |-> [key |-> links[i].value.key, schema |-> BondKey(S[links[i].schema].bonds[1])]]

\* The link of a parsed payload: 32 bytes in a ciborium::Value, Ipld::Link
\* in an Ipld.
LinkIn(parsed, k) == IF parsed = "ipld" THEN IpldLink(k) ELSE Link(k)

WalkLeaves(parsed) == {Text("x"), Integer(7), LinkIn(parsed, "vA1"), LinkIn(parsed, "vA2")}

\* Field and variant names and a name no schema knows, in the order of
\* a BTreeMap<String, Ipld>.
WalkNames == <<"author", "by", "title", "zz">>

\* Map keys: the names and, where the map is not an Ipld::Map, a link.
WalkMapKeys(parsed) ==
  {Text(WalkNames[i]) : i \in DOMAIN WalkNames} \cup (IF parsed = "ipld" THEN {} ELSE {Link("vA2")})

WalkMaps1(parsed) == {MapV(<<E(k, v)>>) : k \in WalkMapKeys(parsed), v \in WalkLeaves(parsed)}

\* Maps of two entries.  An Ipld::Map has distinct keys in order; a CBOR
\* map may also have a link as a key or the same key twice.
WalkMaps2(parsed) ==
  LET vals == WalkLeaves(parsed) \X WalkLeaves(parsed)
      sorted == {ij \in (DOMAIN WalkNames) \X (DOMAIN WalkNames) : ij[1] < ij[2]}
  IN {MapV(<<E(Text(WalkNames[ij[1]]), vw[1]), E(Text(WalkNames[ij[2]]), vw[2])>>) : ij \in sorted, vw \in vals}
     \cup (IF parsed = "ipld" THEN {}
           ELSE {MapV(<<E(Link("vA2"), vw[1]), E(Text("by"), vw[2])>>) : vw \in vals}
                \cup {MapV(<<E(Text("author"), vw[1]), E(Text("author"), vw[2])>>) : vw \in vals})

WalkArrays(parsed) ==
  {Arr(<<>>)} \cup {Arr(<<x>>) : x \in WalkLeaves(parsed)}
  \cup {Arr(<<x, y>>) : x \in WalkLeaves(parsed) \cup WalkMaps1(parsed), y \in WalkLeaves(parsed) \cup WalkMaps1(parsed)}

\* The payloads handed to collect_bonds: every shape, matching the schema
\* or not.
WalkValues(parsed) == WalkLeaves(parsed) \cup WalkMaps1(parsed) \cup WalkMaps2(parsed) \cup WalkArrays(parsed)

WalkSchemaKeys == {"sBondAuthor", "sChapter", "sChapters", "sTag", "sDict", "sMisc"}

WalkUnchanged ==
  /\ UNCHANGED <<source, dest, stack, schemas, transferred, status, result, args, oplog, dest0, prev, ncalls>>
  /\ UNCHANGED <<ext, onecell, threads, data, rpc, swarm, chat>>

\* sync::collect_bonds(&value, schema, schemas, &mut bonds) on an empty
\* bonds vector.
SyncCollect ==
  /\ walk.fn = ""
  /\ walk.parsed = "cbor"
  /\ walk' = [walk EXCEPT !.fn = "sync",
                          !.refs = CollectBonds(walk.value, WalkSchemas[walk.schema], WalkSchemas)]
  /\ WalkUnchanged

\* traverse::collect_bonds(&value, schema, schemas, &mut bonds) on an empty
\* bonds vector.
TraverseCollect ==
  /\ walk.fn = ""
  /\ walk.parsed = "ipld"
  /\ walk' = [walk EXCEPT !.fn = "traverse",
                          !.refs = TraverseCollectBonds(walk.value, walk.schema, WalkSchemas),
                          !.calls = TraverseCalls(walk.value, walk.schema, WalkSchemas)]
  /\ WalkUnchanged

\* A parsed payload and a schema; no store is involved.
WalkInit ==
  /\ PullIdle
  /\ fault = NoFault
  /\ other = NoCall
  /\ cells = <<>>
  /\ pstore = <<>>
  /\ persist = NoPersist
  /\ added = NoAdd
  /\ onecell = NoCell
  /\ threads = NoThreads
  /\ data = <<>>
  /\ rpc = NoRpc
  /\ swarm = NoSwarm
  /\ chat = NoChat
  /\ \E parsed \in {"cbor", "ipld"} : \E v \in WalkValues(parsed) : \E sk \in WalkSchemaKeys :
       walk = [NoWalk EXCEPT !.parsed = parsed, !.value = v, !.schema = sk]

NextWalk == SyncCollect \/ TraverseCollect

SpecWalk == WalkInit /\ [][NextWalk]_vars

-----------------------------------------------------------------------------
(* run_swarm: the task that owns the Swarm.  RemoteStore::send_request      *)
(* puts a SendRequest command with a fresh oneshot sender on the command    *)
(* channel and awaits the receiver; run_swarm takes commands and swarm      *)
(* events one at a time (tokio::select!), no await inside an arm but        *)
(* handle_request's.  The request_response behaviour numbers the outbound   *)
(* requests and reports one Response or one OutboundFailure for each.       *)

MaxRequests == 3

\* The callers of send_request; each has the oneshot channel of its command.
Callers == 1..MaxRequests

\* run_swarm before its first select!, nothing sent yet:
\*   queue    the command channel (mpsc), in order
\*   pending  pending_requests: OutboundRequestId -> the caller whose sender it holds
\*   nextid   the next OutboundRequestId of the behaviour
\*   net      the outbound requests the behaviour has not reported on yet
\*   issued   for each caller, the id send_request returned for its command (0: none)
\*   chan     for each caller, what its oneshot receiver was sent
\*   dropped  the callers that gave up their receiver
\*   inbound  the requests of peers served so far
SwarmStart ==
  [on |-> TRUE, queue |-> <<>>, pending |-> <<>>, nextid |-> 1, net |-> {},
   issued |-> [c \in Callers |-> 0], chan |-> [c \in Callers |-> <<>>], sentby |-> {}, dropped |-> {},
   inbound |-> 0]

SwarmUnchanged ==
  /\ UNCHANGED <<source, dest, stack, schemas, transferred, status, result, args, oplog, dest0, prev, ncalls>>
  /\ UNCHANGED <<ext, onecell, threads, rpc, walk, chat>>

\* RemoteStore::send_request: command_tx.send(Command::SendRequest{..}).
SendCommand ==
  \E c \in Callers \ swarm.sentby :
    /\ swarm' = [swarm EXCEPT !.queue = Append(@, [kind |-> "SendRequest", caller |-> c]),
                              !.sentby = @ \cup {c}]
    /\ UNCHANGED data
    /\ SwarmUnchanged

\* The future of send_request is dropped before its result arrives: the
\* oneshot receiver is gone.
DropReceiver ==
  \E c \in swarm.sentby \ swarm.dropped :
    /\ swarm.chan[c] = <<>>
    /\ swarm' = [swarm EXCEPT !.dropped = @ \cup {c}]
    /\ UNCHANGED data
    /\ SwarmUnchanged

\* pending_requests.remove(&request_id) that returns the sender and leaves
\* the entry in the map.
TakePending_keep(pending, id) ==
  [tx |-> IF id \in DOMAIN pending THEN pending[id] ELSE 0, rest |-> pending]

\* pending_requests.remove(&request_id): the sender stored under the id
\* (0: none) and the map without the entry.
TakePending(pending, id) ==
  [tx |-> IF id \in DOMAIN pending THEN pending[id] ELSE 0,
   rest |-> [x \in DOMAIN pending \ {id} |-> pending[x]]]

\* tx.send(result): the receiver gets it unless it was dropped.
ChanSend(chan, dropped, c, res) ==
  IF c = 0 \/ c \in dropped THEN chan ELSE [chan EXCEPT ![c] = Append(@, res)]

\* The arm of Command::SendRequest: send_request numbers the request, the
\* sender goes into pending_requests under that id.
TakeSendRequest ==
  /\ swarm.queue # <<>>
  /\ Head(swarm.queue).kind = "SendRequest"
  /\ LET c == Head(swarm.queue).caller
         id == swarm.nextid
     IN swarm' = [swarm EXCEPT !.queue = Tail(@),
                               !.nextid = id + 1,
                               !.pending = [x \in DOMAIN @ \cup {id} |-> IF x = id THEN c ELSE @[x]],
                               !.net = @ \cup {id},
                               !.issued = [@ EXCEPT ![c] = id]]
  /\ UNCHANGED data
  /\ SwarmUnchanged

\* Event::Message { Response { request_id, response } }.
ResponseEvent ==
  \E id \in swarm.net :
    /\ LET t == TakePending(swarm.pending, id)
       IN swarm' = [swarm EXCEPT !.net = @ \ {id},
                                 !.pending = t.rest,
                                 !.chan = ChanSend(@, swarm.dropped, t.tx, [kind |-> "Response", id |-> id])]
    /\ UNCHANGED data
    /\ SwarmUnchanged

\* Event::OutboundFailure { request_id, error }.
OutboundFailureEvent ==
  \E id \in swarm.net :
    /\ LET t == TakePending(swarm.pending, id)
       IN swarm' = [swarm EXCEPT !.net = @ \ {id},
                                 !.pending = t.rest,
                                 !.chan = ChanSend(@, swarm.dropped, t.tx, [kind |-> "OutboundFailure", id |-> id])]
    /\ UNCHANGED data
    /\ SwarmUnchanged

\* Event::Message { Request { request, channel } }: handle_request on the
\* local store, send_response; pending_requests is not touched.
RequestEvent ==
  /\ swarm.inbound < MaxRequests
  /\ \E kind \in {"Get", "Put"} : \E k \in StoreKeys :
       LET items == IF kind = "Put" THEN <<<<k, Universe[k]>>>> ELSE <<k>>
       IN data' = HandleRequest(data, Request(kind, items), 0).store
  /\ swarm' = [swarm EXCEPT !.inbound = @ + 1]
  /\ SwarmUnchanged

SwarmInit ==
  /\ PullIdle
  /\ fault = NoFault
  /\ other = NoCall
  /\ cells = <<>>
  /\ pstore = <<>>
  /\ persist = NoPersist
  /\ added = NoAdd
  /\ onecell = NoCell
  /\ threads = NoThreads
  /\ data = <<>>
  /\ rpc = NoRpc
  /\ walk = NoWalk
  /\ chat = NoChat
  /\ swarm = SwarmStart

NextSwarm ==
  \/ SendCommand
  \/ DropReceiver
  \/ TakeSendRequest
  \/ ResponseEvent
  \/ OutboundFailureEvent
  \/ RequestEvent

SpecSwarm == SwarmInit /\ [][NextSwarm]_vars

-----------------------------------------------------------------------------
(* ChatApp (silane-tool): the state the key handlers, send_message and      *)
(* poll_response read and write, and the completion tasks send_message      *)
(* spawns.  A message is written as the conversation it ends: the sequence  *)
(* of its predecessors' contents and its own, which is what its CID is a    *)
(* hash of (content and the `previous` bond).  The picker selection, the    *)
(* model names and messages_scroll are display state and are left out.      *)

MaxSends == 2

MaxInput == 1

InputChars == {" ", "a"}

\* The keys handle_key tells apart; KeyCode::Char(c) is written c.
KeyCodes == {"Esc", "Enter", "F2", "F3", "Backspace", "Delete", "Left", "Right", "Home", "End"}
              \cup InputChars

\* MessageContent::User(vec![ContentBlock::Text(text)]).
UserMsg(text) == [role |-> "user", text |-> text, task |-> 0]

\* The assistant Message client.complete returns to task t.
AssistantMsg(t) == [role |-> "assistant", text |-> <<>>, task |-> t]

\* str::trim.
RECURSIVE TrimStart(_)
TrimStart(s) == IF s # <<>> /\ Head(s) = " " THEN TrimStart(Tail(s)) ELSE s

RECURSIVE TrimEnd(_)
TrimEnd(s) == IF s # <<>> /\ s[Len(s)] = " " THEN TrimEnd(SubSeq(s, 1, Len(s) - 1)) ELSE s

Trim(s) == TrimEnd(TrimStart(s))

\* String::insert(idx, c) and String::remove(idx), idx counted from 0.
InsertAt(s, idx, c) == SubSeq(s, 1, idx) \o <<c>> \o SubSeq(s, idx + 1, Len(s))

RemoveAt(s, idx) == SubSeq(s, 1, idx) \o SubSeq(s, idx + 2, Len(s))

\* The blobs of a message and of all its predecessors.
Chain(m) == {SubSeq(m, 1, i) : i \in 1..Len(m)}

\* persist_message -> Solvent::persist_cell: the schemas, then the message's
\* predecessors oldest first, then the message, one store.put each; the
\* put number f fails (0: none does) and the puts before it stay.
PersistMessage(store, m, f) ==
  [ok |-> f = 0 \/ f > Len(m),
   store |-> store \cup {SubSeq(m, 1, i) : i \in 1..(IF f = 0 \/ f > Len(m) THEN Len(m) ELSE f - 1)}]

\* ChatApp::new without --continue.
ChatNew ==
  [on |-> TRUE, mode |-> "Chat", should_quit |-> FALSE, input |-> <<>>, cursor_pos |-> 0,
   conversation_head |-> <<>>, store |-> {}, response_rx |-> 0, last_error |-> "",
   tasks |-> <<>>, cancelled |-> {}]

\* ChatApp::new continuing a stored conversation: load_message_recursive
\* reads the head and its predecessors from the store.
ChatContinued ==
  LET m == <<UserMsg(<<"a">>), [role |-> "assistant", text |-> <<>>, task |-> 0]>>
  IN [ChatNew EXCEPT !.conversation_head = m, !.store = Chain(m)]

\* ChatApp::send_message.
SendMessage(a, f) ==
  LET text == Trim(a.input)
      user_msg == Append(a.conversation_head, UserMsg(text))
      p == PersistMessage(a.store, user_msg, f)
  IN IF text = <<>> THEN a
     ELSE IF ~p.ok THEN [a EXCEPT !.store = p.store, !.last_error = "Failed to persist message"]
     ELSE [a EXCEPT !.store = p.store,
                    !.conversation_head = user_msg,
                    !.input = <<>>,
                    !.cursor_pos = 0,
                    !.tasks = Append(@, [request |-> user_msg, state |-> "spawned", result |-> ""]),
                    !.response_rx = Len(a.tasks) + 1,
                    !.mode = "Loading",
                    !.last_error = ""]

\* rx.try_recv() on the receiver of task t.
TryRecv(a, t) ==
  CASE a.tasks[t].state = "sent" -> a.tasks[t].result
    [] a.tasks[t].state = "closed" -> "Closed"
    [] OTHER -> "Empty"

\* ChatApp::poll_response.
PollResponse(a, f) ==
  IF a.response_rx = 0 THEN a
  ELSE LET r == TryRecv(a, a.response_rx)
           message == Append(a.tasks[a.response_rx].request, AssistantMsg(a.response_rx))
           p == PersistMessage(a.store, message, f)
       IN CASE r = "Ok" ->
                 [a EXCEPT !.store = p.store,
                           !.last_error = IF p.ok THEN @ ELSE "Failed to persist response",
                           !.conversation_head = message,
                           !.response_rx = 0,
                           !.mode = "Chat"]
            [] r = "Err" -> [a EXCEPT !.last_error = "OpenRouterError", !.response_rx = 0, !.mode = "Chat"]
            [] r = "Empty" -> a
            [] r = "Closed" -> [a EXCEPT !.last_error = "Request cancelled", !.response_rx = 0, !.mode = "Chat"]

\* handle_chat_key.
HandleChatKey(a, key, f) ==
  CASE key = "Esc" -> [a EXCEPT !.should_quit = TRUE]
    [] key = "F2" -> [a EXCEPT !.mode = "SelectModel"]
    [] key = "F3" -> [a EXCEPT !.mode = "SelectReasoning"]
    [] key = "Enter" -> SendMessage(a, f)
    [] key = "Backspace" ->
         IF a.cursor_pos > 0
         THEN [a EXCEPT !.input = RemoveAt(@, a.cursor_pos - 1), !.cursor_pos = @ - 1]
         ELSE a
    [] key = "Delete" ->
         IF a.cursor_pos < Len(a.input) THEN [a EXCEPT !.input = RemoveAt(@, a.cursor_pos)] ELSE a
    [] key = "Left" -> IF a.cursor_pos > 0 THEN [a EXCEPT !.cursor_pos = @ - 1] ELSE a
    [] key = "Right" -> IF a.cursor_pos < Len(a.input) THEN [a EXCEPT !.cursor_pos = @ + 1] ELSE a
    [] key = "Home" -> [a EXCEPT !.cursor_pos = 0]
    [] key = "End" -> [a EXCEPT !.cursor_pos = Len(a.input)]
    [] OTHER -> [a EXCEPT !.input = InsertAt(@, a.cursor_pos, key), !.cursor_pos = @ + 1]

\* handle_loading_key with the receiver left in response_rx.
HandleLoadingKey_keeprx(a, key) ==
  IF key = "Esc"
  THEN [a EXCEPT !.mode = "Chat", !.last_error = "Request cancelled",
                 !.cancelled = @ \cup {a.response_rx}]
  ELSE a

\* handle_loading_key; `cancelled` records the request Esc gave up.
HandleLoadingKey(a, key) ==
  IF key = "Esc"
  THEN [a EXCEPT !.response_rx = 0, !.mode = "Chat", !.last_error = "Request cancelled",
                 !.cancelled = @ \cup {a.response_rx}]
  ELSE a

\* handle_popup_key: Esc is close_popup, Enter is popup_select.
HandlePopupKey(a, key) ==
  IF key \in {"Esc", "Enter"} THEN [a EXCEPT !.mode = "Chat"] ELSE a

\* handle_key.
HandleKey(a, key, f) ==
  CASE a.mode = "Chat" -> HandleChatKey(a, key, f)
    [] a.mode = "Loading" -> HandleLoadingKey(a, key)
    [] OTHER -> HandlePopupKey(a, key)

ChatUnchanged ==
  /\ UNCHANGED <<source, dest, stack, schemas, transferred, status, result, args, oplog, dest0, prev, ncalls>>
  /\ UNCHANGED <<ext, onecell, threads, data, rpc, walk, swarm>>

\* run_loop: event::read, handle_event.
KeyEvent ==
  /\ ~chat.should_quit
  /\ \E key \in KeyCodes :
     \E f \in IF key = "Enter" /\ chat.mode = "Chat" THEN 0..(Len(chat.conversation_head) + 1) ELSE {0} :
       /\ (key = "Enter" /\ chat.mode = "Chat") => Len(chat.tasks) < MaxSends
       /\ (key \in InputChars /\ chat.mode = "Chat") => Len(chat.input) < MaxInput
       /\ chat' = HandleKey(chat, key, f)
  /\ ChatUnchanged

\* run_loop: app.poll_response().
Poll ==
  /\ ~chat.should_quit
  /\ chat.response_rx # 0
  /\ \E f \in 0..(Len(chat.conversation_head) + 1) : chat' = PollResponse(chat, f)
  /\ ChatUnchanged

\* The spawned task: client.lock().await.
TaskLock ==
  \E t \in DOMAIN chat.tasks :
    /\ chat.tasks[t].state = "spawned"
    /\ \A u \in DOMAIN chat.tasks : chat.tasks[u].state # "locked"
    /\ chat' = [chat EXCEPT !.tasks[t].state = "locked"]
    /\ ChatUnchanged

\* The spawned task: client.complete(&request).await returns, tx.send(result).
TaskSend ==
  \E t \in DOMAIN chat.tasks : \E r \in {"Ok", "Err"} :
    /\ chat.tasks[t].state = "locked"
    /\ chat' = [chat EXCEPT !.tasks[t].state = "sent", !.tasks[t].result = r]
    /\ ChatUnchanged

\* The spawned task ends without sending (a panic in complete, the runtime
\* shut down): the sender is dropped.
TaskDrop ==
  \E t \in DOMAIN chat.tasks :
    /\ chat.tasks[t].state = "locked"
    /\ chat' = [chat EXCEPT !.tasks[t].state = "closed"]
    /\ ChatUnchanged

ChatInit ==
  /\ PullIdle
  /\ fault = NoFault
  /\ other = NoCall
  /\ cells = <<>>
  /\ pstore = <<>>
  /\ persist = NoPersist
  /\ added = NoAdd
  /\ onecell = NoCell
  /\ threads = NoThreads
  /\ data = <<>>
  /\ rpc = NoRpc
  /\ walk = NoWalk
  /\ swarm = NoSwarm
  /\ chat \in {ChatNew, ChatContinued}

NextChat ==
  \/ KeyEvent
  \/ Poll
  \/ TaskLock
  \/ TaskSend
  \/ TaskDrop

SpecChat == ChatInit /\ [][NextChat]_vars

-----------------------------------------------------------------------------
(* Properties.                                                              *)

\* C1: after pull returns Ok on a dest that was complete for its value keys,
\* value_key and every key reachable from it by links are present in dest.
C1_PullTransfersClosure ==
  (status = "ok" /\ Complete(dest0)) => Reach(args[1]) \subseteq DOMAIN dest

\* C2: completeness-on-presence is preserved by pull: if every value key of
\* dest had its link targets present before the call, it has them in every
\* state of the call, intermediate or final, Ok or Err.
C2_CompletenessInvariant == Complete(dest0) => Complete(dest)

\* C3: every blob the call has put to dest, value or schema, has every blob
\* it references present in dest, in every state an observer can see.
C3_DependenciesFirst == \A k \in Written : Refs(k) \subseteq DOMAIN dest

\* C4: schema first: when pull_recursive puts a value blob, the Structure
\* blob of its schema key and every Structure blob reachable from it are
\* already present in dest.
C4_SchemaFirst ==
  [][(/\ Len(oplog') = Len(oplog) + 1
      /\ oplog'[Len(oplog')].op = "put"
      /\ oplog'[Len(oplog')].role = "value")
     => Reach(Top.schema_key) \subseteq DOMAIN dest]_vars

\* A pull that wrote schema blobs and then value blobs has returned Ok.
C4_Witness ==
  /\ status = "ok"
  /\ \E i, j \in DOMAIN oplog :
       /\ i < j
       /\ oplog[i].op = "put" /\ oplog[i].role = "schema"
       /\ oplog[j].op = "put" /\ oplog[j].role = "value"

\* C5: idempotence: a pull that follows a successful pull with the same
\* arguments issues no get and no put, does not fail, and returns an empty
\* transferred list.
C5_Idempotent ==
  (ncalls >= 2 /\ prev.status = "ok" /\ prev.args = args)
    => /\ status # "err"
       /\ transferred = <<>>
       /\ \A i \in DOMAIN oplog : oplog[i].op = "has"
       /\ status = "ok" => result.list = <<>>

\* The second of two equal pulls has returned, the first having transferred.
C5_Witness ==
  /\ ncalls >= 2
  /\ status = "ok"
  /\ prev.status = "ok"
  /\ prev.args = args
  /\ prev.n > 0

\* C6: within one call no key is fetched from source twice and no key is
\* put to dest twice, value and schema blobs alike.
C6_AtMostOnce ==
  \A i, j \in DOMAIN oplog :
    (i < j /\ oplog[i].op \in {"get", "put"} /\ oplog[i].op = oplog[j].op)
      => oplog[i].key # oplog[j].key

\* C7: pull never issues source.get for a key dest holds at that moment.
C7_NoRefetch == \A i \in DOMAIN oplog : oplog[i].op = "get" => ~oplog[i].held

\* C8: the list a successful pull returns is the sequence of keys the call
\* put to dest, in write order, each once, none of them held by dest before.
C8_TransferredIsPutLog ==
  status = "ok"
    => /\ result.list = PutKeys(oplog)
       /\ {result.list[i] : i \in DOMAIN result.list} = Written
       /\ \A i, j \in DOMAIN result.list : i # j => result.list[i] # result.list[j]

\* C9: sync equivalence: after a successful pull from a source that holds
\* the graph, dest.get and source.get agree on every key reachable from
\* value_key.
C9_SyncEquivalence ==
  (status = "ok" /\ Complete(dest0) /\ Reach(args[1]) \subseteq DOMAIN source)
    => \A k \in Reach(args[1]) : Get(dest, k) = Get(source, k)

\* C10: a source.get that finds nothing ends the call with NotFound of that
\* key and is its last store operation; dest then holds no blob written by
\* the call from which the missing key is reachable, and not value_key.
C10_NotFoundAbort ==
  /\ \A i \in DOMAIN oplog :
       (oplog[i].op = "get" /\ oplog[i].key \notin DOMAIN source)
         => (status = "err" /\ result = Err("NotFound", oplog[i].key) /\ i = Len(oplog))
  /\ (status = "err" /\ result.tag = "NotFound")
       => /\ args[1] \notin DOMAIN dest
          /\ \A x \in Written : result.key \notin Reach(x)

\* C11: store errors are tagged by side: when a dest operation (has, put)
\* of the running call failed, the call has ended with Dest(e), when its
\* source.get failed, with Source(e); a Dest or Source result comes from a
\* failure of that side only, and the failed operation is the call's last.
C11_ErrorsTaggedBySide ==
  /\ (fault.call = ncalls /\ fault.side = "dest")
       => (status = "err" /\ result = Err("Dest", fault.key) /\ fault.op \in {"has", "put"})
  /\ (fault.call = ncalls /\ fault.side = "source")
       => (status = "err" /\ result = Err("Source", fault.key) /\ fault.op = "get")
  /\ (status = "err" /\ result.tag = "Dest") => (fault.call = ncalls /\ fault.side = "dest")
  /\ (status = "err" /\ result.tag = "Source") => (fault.call = ncalls /\ fault.side = "source")
  /\ (fault.call = ncalls /\ fault.side # "none")
       => (/\ Len(oplog) = fault.at
           /\ oplog[fault.at].op = fault.op
           /\ oplog[fault.at].key = fault.key)

\* A put of dest failed after the call had written blobs, and the call
\* ended with the Dest error.
C11_Witness ==
  /\ fault.call = ncalls
  /\ fault.side = "dest"
  /\ fault.op = "put"
  /\ result.tag = "Dest"
  /\ transferred # <<>>

\* The call was handed a key of a Structure as its schema key.
WellTyped(a) == a[2] \in SchemaKeys

\* C12: retry after interruption: when a pull was cancelled or aborted and
\* a pull with the same arguments follows against the same dest, source
\* holding the whole graph, the retry returns Ok unless it is interrupted
\* itself, and dest then holds value_key, every reachable value blob and
\* every Structure blob of the schema tree.
C12_RetryAfterInterruption ==
  (/\ ncalls >= 2
   /\ prev.status \in {"cancelled", "err"}
   /\ prev.args = args
   /\ WellTyped(args)
   /\ Reach(args[1]) \cup Reach(args[2]) \subseteq DOMAIN source
   /\ status \in {"ok", "err"}
   /\ fault.call # ncalls)
    => /\ status = "ok"
       /\ Reach(args[1]) \cup Reach(args[2]) \subseteq DOMAIN dest

\* C13: two pull calls interleaved at store operations against one dest:
\* neither call fails, dest never holds a value blob with a link target
\* missing, and when both have returned, every key reachable from either
\* value_key is in dest with the bytes source holds.
C13_ConcurrentPullsSafe ==
  (status # "idle" /\ other.status # "idle" /\ WellTyped(args) /\ WellTyped(other.args))
    => /\ status # "err"
       /\ other.status # "err"
       /\ Complete(dest)
       /\ (status = "ok" /\ other.status = "ok")
            => \A k \in Reach(args[1]) \cup Reach(other.args[1]) : Get(dest, k) = Get(source, k)

\* C14: after a successful pull, schema_key and every Structure blob
\* reachable from it are present in dest, whatever dest held before the
\* call.
C14_SchemaPresentAfterPull ==
  (status = "ok" /\ WellTyped(args)) => Reach(args[2]) \subseteq DOMAIN dest

\* The value keys reachable from the cell persist_cell was called on.
Graph == Reach(persist.key)

\* The type of the value persist_cell meets under a key of the graph.
TypeAt(x) == IF x = persist.key THEN persist.type ELSE cells[x].type

\* The whole graph of the cell is in the calling Solvent: the cell is
\* interned under its type and so is every bond target under the type of
\* its bond.
WholeGraphAdded ==
  /\ SolventGet(cells, persist.key, persist.type)
  /\ \A x \in Graph :
       /\ x \in DOMAIN cells
       /\ \A r \in Refs(x) : SolventGet(cells, r, TypeInfo[TypeAt(x)].target)

\* C15: persist writes value blobs dependency first: every value blob the
\* call has put has every blob it links to in the store, the whole graph
\* being in the calling Solvent (Author before Chapter before Book).
C15_PersistDependencyFirst ==
  (persist.status \in {"values", "ok"} /\ WholeGraphAdded)
    => \A i \in DOMAIN persist.puts : Refs(persist.puts[i]) \subseteq DOMAIN pstore

\* C16: persist completeness: after persist returns Ok on a store in which
\* every blob had its link targets present, every blob of the store has
\* its link targets present, whatever cell was passed and whatever the
\* calling Solvent holds.
C16_PersistCompleteness ==
  persist.status = "ok" => \A k \in DOMAIN pstore : Refs(k) \subseteq DOMAIN pstore

\* C17: persist_cell on a cell whose whole graph was added to the calling
\* Solvent leaves the root, every value blob linked from it and every
\* Structure blob of T::schema()'s tree in the store, with their bytes, and
\* returns (key of the cell, key of T::schema()).
C17_PersistCellWritesGraph ==
  (persist.status = "ok" /\ WholeGraphAdded)
    => /\ \A k \in Graph \cup SchemaSolventKeys(persist.type) : Get(pstore, k) = Universe[k]
       /\ persist.result = <<persist.key, SchemaCid(persist.type)>>

\* persist_cell returned Ok for the Book whose two Chapters and their
\* Author were added, and the store holds the four value blobs.
C17_Witness ==
  /\ persist.status = "ok"
  /\ WholeGraphAdded
  /\ persist.key = "vBook2"
  /\ Cardinality(Graph) = 4
  /\ Graph \subseteq DOMAIN pstore

\* C18: when a store.put fails during persist, the call returns the error
\* and the store is consistent: every value blob in it has its link
\* targets in it (the whole graph being in the calling Solvent).
C18_PersistFailureConsistent ==
  (persist.status = "err" /\ WholeGraphAdded)
    => \A k \in DOMAIN pstore \cap ValueKeys : Refs(k) \subseteq DOMAIN pstore

\* The keys of a value and of the values it reaches by Resolved bonds.
RECURSIVE ResolvedKeys(_)
ResolvedKeys(v) ==
  {ComputeCid(v)} \cup UNION {ResolvedKeys(v.bonds[i].val) : i \in {j \in DOMAIN v.bonds : v.bonds[j].resolved}}

C20_SolventClosure ==
  (added.n >= 1 /\ persist.status = "idle") => ResolvedKeys(added.value) \subseteq DOMAIN cells

\* C21: interned values are never removed: under any sequence of add,
\* bond, resolve and get, every key that was interned is interned, and
\* get(k, T) returns the cell that was first interned under k with type T,
\* also after an add of a value of another type with the same key.
C21_InternedNeverRemoved ==
  \A kt \in DOMAIN added.first :
    /\ kt[1] \in DOMAIN cells
    /\ SolventGetCell(cells, kt[1], kt[2]) = added.first[kt]

\* C22: resolve(ref) returns the input when ref is Resolved or when its
\* key is not interned under the expected type, and otherwise a Resolved
\* bond to the interned cell; the result has the key of the input; and
\* resolve leaves the Solvent as it was.
C22_ResolveResult ==
  /\ [](added.op = "resolve" =>
          LET b == added.arg
              r == added.ret
          IN /\ (b.resolved \/ ~SolventGet(cells, b.key, added.T)) => r = b
             /\ (~b.resolved /\ SolventGet(cells, b.key, added.T))
                  => r.resolved /\ r.cell = cells[b.key].id /\ r.cell # NoId
             /\ BondCid(r) = BondCid(b))
  /\ [][ResolveBond => cells' = cells]_vars

\* resolve upgraded an Unresolved bond to the interned cell.
C22_Witness ==
  /\ added.op = "resolve"
  /\ ~added.arg.resolved
  /\ added.ret.resolved
  /\ added.ret.cell = cells[added.arg.key].id

C24_BondTransparency ==
  /\ \A kt \in Typed : \A v \in ValuesOf(kt[1], kt[2]) : ComputeCid(v) = kt[1]
  /\ \A k \in DOMAIN cells :
       /\ cells[k].id[1] = k
       /\ ComputeCid(CellValue(cells[k])) = k
       /\ \A i \in DOMAIN cells[k].bonds : BondCid(cells[k].bonds[i]) = LinkSeq(Universe[k])[i]

\* A Book was added with a Resolved and an Unresolved chapter and its
\* interned cell, whose bonds were rewritten, has the key of the Book.
C24_Witness ==
  /\ added.op = "add"
  /\ added.value.type = "Book"
  /\ added.value.bonds[1].resolved
  /\ ~added.value.bonds[2].resolved
  /\ added.key \in DOMAIN cells
  /\ cells[added.key].bonds # added.value.bonds
  /\ ComputeCid(CellValue(cells[added.key])) = added.key

\* C26: visit_bonds(v) calls the visitor once for each bond of v, in
\* declaration order, and for nothing else: the keys reported are the
\* links of v's blob whether the bonds are Resolved or not.
C26_VisitOwnLinks ==
  added.op = "visit" => added.seen = LinkSeq(Universe[added.arg.key])

\* The key cid() has to give: the key the cell was made with, or else the
\* computed key of its value.
CellKey == IF onecell.preset # NoKey THEN onecell.preset ELSE ComputeCid(onecell.value)

\* C25: the key slot of a Cell is write-once: under any interleaving of
\* cid() calls of threads sharing the cell the slot is written at most
\* once, and exactly once when a call has returned; every call returns the
\* same key, compute_cid(value) for Cell::new; and for
\* Cell::with_cid(value, k) every call returns k and nothing is computed.
C25_CellSlotWriteOnce ==
  /\ onecell.writes <= 1
  /\ onecell.computes <= 1
  /\ onecell.slot \in {NoKey, CellKey}
  /\ onecell.preset # NoKey => onecell.computes = 0 /\ onecell.slot = onecell.preset
  /\ \A t \in DOMAIN threads :
       threads[t].pc = "done"
         => threads[t].got = CellKey /\ onecell.writes = 1 /\ onecell.slot = CellKey

\* Every thread has its key from a Cell::new cell, one of them after
\* blocking on the initializer of another.
C25_Witness ==
  /\ threads # NoThreads
  /\ onecell.preset = NoKey
  /\ onecell.waited = 1
  /\ \A t \in DOMAIN threads : threads[t].pc = "done" /\ threads[t].got = ComputeCid(onecell.value)

\* The places of the puts of key k in a sequence of (key, bytes) pairs.
PutsOf(log, k) == {i \in 1..Len(log) : log[i][1] = k}

\* The bytes of the most recent put of k in log, otherwise what m holds.
LastPut(log, k, m) ==
  IF PutsOf(log, k) = {} THEN Get(m, k)
  ELSE log[CHOOSE i \in PutsOf(log, k) : \A j \in PutsOf(log, k) : j <= i][2]

\* C27: MemoryStore is a last-writer-wins map under any sequence of
\* operations: get(k) returns the bytes of the most recent put(k, _), or
\* None if k was never put; has(k) is true iff k was put; get and has
\* change nothing; put(k, _) leaves every other key unchanged.
C27_MemoryStoreLastWriterWins ==
  rpc.via = "store" =>
    LET k == IF rpc.op = "put" THEN rpc.items[1][1] ELSE rpc.items[1]
    IN /\ rpc.ok
       /\ rpc.op = "get" =>
            /\ rpc.answer = <<LastPut(rpc.log, k, <<>>)>>
            /\ data = rpc.before
       /\ rpc.op = "has" =>
            /\ rpc.answer = <<PutsOf(rpc.log, k) # {}>>
            /\ data = rpc.before
       /\ rpc.op = "put" =>
            /\ Get(data, k) = rpc.items[1][2]
            /\ DOMAIN data = DOMAIN rpc.before \cup {k}
            /\ \A x \in DOMAIN rpc.before \ {k} : data[x] = rpc.before[x]

\* A get of a key put twice, with different bytes, answers the later ones.
C27_Witness ==
  /\ rpc.via = "store"
  /\ rpc.op = "get"
  /\ Cardinality(PutsOf(rpc.log, rpc.items[1])) >= 2
  /\ \E i \in PutsOf(rpc.log, rpc.items[1]) : rpc.log[i][2] # rpc.answer[1]
  /\ rpc.answer[1] # NoneBytes

\* C28: the default batch operations issue the single-key operation in
\* request order: get_many and has_many return one result per requested
\* key, position by position equal to get / has of that key, and put_many
\* applies the puts in order and stops at the first error, the earlier puts
\* left applied.
C28_BatchInRequestOrder ==
  rpc.via = "batch" =>
    LET n == Len(rpc.items)
        applied == SubSeq(rpc.items, 1, IF rpc.fail = 0 THEN n ELSE rpc.fail - 1)
    IN /\ rpc.ok <=> rpc.fail = 0
       /\ rpc.op = "get" =>
            /\ data = rpc.before
            /\ rpc.ok => Len(rpc.answer) = n /\ \A i \in 1..n : rpc.answer[i] = Get(rpc.before, rpc.items[i])
       /\ rpc.op = "has" =>
            /\ data = rpc.before
            /\ rpc.ok => Len(rpc.answer) = n /\ \A i \in 1..n : rpc.answer[i] = (rpc.items[i] \in DOMAIN rpc.before)
       /\ rpc.op = "put" =>
            /\ DOMAIN data = DOMAIN rpc.before \cup {applied[i][1] : i \in 1..Len(applied)}
            /\ \A k \in DOMAIN data : data[k] = LastPut(applied, k, rpc.before)

\* A put_many of two pairs whose second put fails: the first one stays.
C28_Witness ==
  /\ rpc.via = "batch"
  /\ rpc.op = "put"
  /\ Len(rpc.items) = 2
  /\ rpc.fail = 2
  /\ ~rpc.ok
  /\ data # rpc.before
  /\ data[rpc.items[1][1]] = rpc.items[1][2]

\* The requested keys, in request order, that the map m holds (or lacks).
Requested(cids, m, present) == SelectSeq(cids, LAMBDA k : (k \in DOMAIN m) = present)

\* C29: handle_request(Get(keys)) answers Nodes{found, missing} that
\* partition the request: found holds (key, bytes) for exactly the requested
\* keys present in the store, with the stored bytes, missing holds exactly
\* the requested keys that are absent, both in request order, and the store
\* is unchanged.  (When a get of the store fails the answer is Error.)
C29_HandleGetPartitions ==
  (rpc.via = "remote" /\ rpc.op = "get") =>
    LET here == Requested(rpc.items, rpc.before, TRUE)
    IN /\ data = rpc.before
       /\ rpc.resp.kind = IF rpc.fail = 0 THEN "Nodes" ELSE "Error"
       /\ rpc.fail = 0 =>
            /\ rpc.resp.found = [i \in 1..Len(here) |-> <<here[i], rpc.before[here[i]]>>]
            /\ rpc.resp.missing = Requested(rpc.items, rpc.before, FALSE)
            /\ Len(rpc.resp.found) + Len(rpc.resp.missing) = Len(rpc.items)

\* A Get of an absent key and then a present one: one in missing, one in
\* found.
C29_Witness ==
  /\ rpc.via = "remote"
  /\ rpc.op = "get"
  /\ Len(rpc.items) = 2
  /\ rpc.items[1] \notin DOMAIN rpc.before
  /\ rpc.items[2] \in DOMAIN rpc.before
  /\ rpc.resp.kind = "Nodes"
  /\ rpc.resp.found = <<<<rpc.items[2], data[rpc.items[2]]>>>>
  /\ rpc.resp.missing = <<rpc.items[1]>>

\* C30: a RemoteStore whose requests handle_request answers over a store R
\* is observationally equal to R: async_get(k) = R.get(k),
\* async_has(k) = R.has(k), async_put(k, b) makes R.get(k) = b, and the
\* batch forms return results aligned by position with the requested keys.
\* (An error of R comes back as RemoteStoreError::Remote, with the puts
\* before it applied as R's own put_many leaves them.)
C30_RemoteStoreEqualsStore ==
  rpc.via = "remote" =>
    LET n == Len(rpc.items)
        applied == SubSeq(rpc.items, 1, IF rpc.fail = 0 THEN n ELSE rpc.fail - 1)
    IN /\ rpc.ok <=> rpc.fail = 0
       /\ ~rpc.ok => rpc.err = "Remote"
       /\ rpc.single => n = 1
       /\ rpc.op = "get" =>
            /\ data = rpc.before
            /\ rpc.ok => rpc.answer = [i \in 1..n |-> Get(rpc.before, rpc.items[i])]
       /\ rpc.op = "has" =>
            /\ data = rpc.before
            /\ rpc.ok => rpc.answer = [i \in 1..n |-> rpc.items[i] \in DOMAIN rpc.before]
       /\ rpc.op = "put" =>
            /\ DOMAIN data = DOMAIN rpc.before \cup {applied[i][1] : i \in 1..Len(applied)}
            /\ \A k \in DOMAIN data : data[k] = LastPut(applied, k, rpc.before)
            /\ (rpc.ok /\ rpc.single) => Get(data, rpc.items[1][1]) = rpc.items[1][2]

\* An async_get_many of an absent key and then a present one: None, then
\* the bytes.
C30_Witness ==
  /\ rpc.via = "remote"
  /\ rpc.op = "get"
  /\ ~rpc.single
  /\ rpc.ok
  /\ Len(rpc.items) = 2
  /\ rpc.items[1] \notin DOMAIN rpc.before
  /\ rpc.items[2] \in DOMAIN rpc.before
  /\ rpc.answer = <<NoneBytes, data[rpc.items[2]]>>

\* Whether a parsed node is a link: 32 bytes in CBOR, Ipld::Link in an Ipld.
IsRef(v) == IF walk.parsed = "ipld" THEN v.c = "Link" ELSE v.c = "Bytes" /\ v.n = 32

\* The refs of the links among the nodes xs, in order, each with the
\* schema key target.
LinkRefs(xs, target) ==
  LET links == SelectSeq(xs, IsRef)
  IN [i \in DOMAIN links |-> [key |-> links[i].key, schema |-> target]]

\* What collect_bonds has to emit for a node under sTag (by: Bond(Author),
\* anon: Unicode) and under sDict (Map from Bond(Author) to Bond(Author),
\* whose keys only sync::collect_bonds can see as links).
TagRefs(v) ==
  IF v.c = "Map" /\ Len(v.entries) = 1 /\ v.entries[1].k = Text("by")
    THEN LinkRefs(<<v.entries[1].v>>, "sAuthor")
    ELSE <<>>

DictRefs(v) ==
  IF v.c # "Map" THEN <<>>
  ELSE IF Len(v.entries) = 1 THEN LinkRefs(<<v.entries[1].k, v.entries[1].v>>, "sAuthor")
  ELSE LinkRefs(<<v.entries[1].k, v.entries[1].v, v.entries[2].k, v.entries[2].v>>, "sAuthor")

\* The value of the last entry of a map under the name, Nil if there is
\* none.
FieldOf(v, name) ==
  LET hits == {i \in DOMAIN v.entries : v.entries[i].k = Text(name)}
  IN IF hits = {} THEN Nil ELSE v.entries[CHOOSE i \in hits : \A j \in hits : j <= i].v

\* C31: collect_bonds never fails: where the payload's shape does not match
\* the schema at a node (Record expected but non-map found, Link expected
\* but non-link found, Tagged map with an unknown tag or more than one
\* entry) it emits no refs for that subtree, still emits the refs of the
\* matching sibling subtrees, and consults no store.
C31_CollectBondsSkipsMismatch ==
  walk.fn # "" =>
    LET v == walk.value
        sk == walk.schema
    IN /\ oplog = <<>>
       /\ source = <<>> /\ dest = <<>>
       /\ sk = "sBondAuthor" => walk.refs = LinkRefs(<<v>>, "sAuthor")
       /\ sk = "sChapter" =>
            walk.refs = IF v.c = "Map" THEN LinkRefs(<<FieldOf(v, "author")>>, "sAuthor") ELSE <<>>
       /\ sk = "sChapters" =>
            walk.refs = IF v.c = "Array" THEN LinkRefs(v.items, "sChapter") ELSE <<>>
       /\ sk = "sTag" => walk.refs = TagRefs(v)
       /\ sk = "sDict" => walk.refs = DictRefs(v)
       /\ sk = "sMisc" =>
            walk.refs = IF v.c # "Array" THEN <<>>
                        ELSE IF Len(v.items) = 0 THEN <<>>
                        ELSE IF Len(v.items) = 1 THEN TagRefs(v.items[1])
                        ELSE TagRefs(v.items[1]) \o DictRefs(v.items[2])

\* Under the tuple schema sMisc the first element is not a map where a
\* Tagged is expected, and the links of the second element are emitted.
C31_Witness ==
  /\ walk.fn # ""
  /\ walk.schema = "sMisc"
  /\ walk.value.c = "Array"
  /\ Len(walk.value.items) = 2
  /\ walk.value.items[1].c # "Map"
  /\ walk.refs # <<>>
  /\ walk.refs = DictRefs(walk.value.items[2])

\* C32: traverse::collect_bonds on a payload whose schema is Map or
\* OrderedMap descends the map keys according to the declared key schema as
\* well as the values: every key of the payload is handed to collect_bonds
\* under the key schema.
C32_TraverseDescendsMapKeys ==
  (walk.fn = "traverse" /\ WalkSchemas[walk.schema].kind \in MapKinds /\ walk.value.c = "Map") =>
    \A i \in DOMAIN walk.value.entries :
      \E c \in DOMAIN walk.calls :
        /\ walk.calls[c].value = walk.value.entries[i].k
        /\ walk.calls[c].schema = BondKey(WalkSchemas[walk.schema].bonds[1])

\* The nodes of the list C -> B -> A of type LinkedNode.
ListNodes == {"vN1", "vN2", "vN3"}

\* C33: when pull follows a Link whose declared target schema is SelfRef(n),
\* the child blob is traversed with the n-th enclosing Structure as its
\* schema: every node of the list is pulled under the schema of LinkedNode,
\* and a pull of C that returns Ok has transferred A, B and C.
C33_SelfRefTraversal ==
  /\ \A i \in DOMAIN stack :
       (stack[i].fn = "pull" /\ stack[i].key \in ListNodes) => stack[i].schema_key = "sNode"
  /\ (status = "ok" /\ args = <<"vN3", "sNode">> /\ ListNodes \subseteq DOMAIN source)
       => ListNodes \subseteq DOMAIN dest

C35_PutsContentAddressed ==
  \A i \in DOMAIN oplog : oplog[i].op = "put" => KeyOf(dest[oplog[i].key]) = oplog[i].key

\* C36: frame of pull: it never calls put on source; it never removes an
\* entry of dest nor changes the bytes stored under a key that dest held
\* before the call; the key set of dest only grows.
C36_PullFrame ==
  /\ [](\A k \in DOMAIN dest0 : k \in DOMAIN dest /\ dest[k] = dest0[k])
  /\ [][source' = source /\ DOMAIN dest \subseteq DOMAIN dest']_vars

\* A call on a dest that held blobs has returned Ok and has written others.
C36_Witness ==
  /\ status = "ok"
  /\ dest0 # <<>>
  /\ Written # {}
  /\ DOMAIN dest0 \subseteq DOMAIN dest

\* C37: in run_swarm, for every interleaving of commands and swarm events,
\* each SendRequest command's response channel receives at most one result,
\* and that result is the Response or OutboundFailure carrying the request
\* id that send_request returned for that command; the pending_requests
\* entry is removed when the result is delivered, and no entry is delivered
\* to another command's channel.
C37_OneResultPerRequest ==
  swarm.on =>
    /\ \A c \in Callers :
         /\ Len(swarm.chan[c]) <= 1
         /\ \A i \in DOMAIN swarm.chan[c] :
              /\ swarm.chan[c][i].kind \in {"Response", "OutboundFailure"}
              /\ swarm.chan[c][i].id = swarm.issued[c]
              /\ swarm.issued[c] # 0
              /\ swarm.chan[c][i].id \notin DOMAIN swarm.pending
    /\ \A id \in DOMAIN swarm.pending : swarm.issued[swarm.pending[id]] = id /\ id \in swarm.net
    /\ \A c, d \in Callers : (c # d /\ swarm.issued[c] # 0) => swarm.issued[c] # swarm.issued[d]

\* Every caller has its result, a Response for one and an OutboundFailure
\* for another, the second request answered before the first.
C37_Witness ==
  /\ swarm.on
  /\ \A c \in Callers : Len(swarm.chan[c]) = 1
  /\ \E c, d \in Callers : swarm.chan[c][1].kind = "Response" /\ swarm.chan[d][1].kind = "OutboundFailure"
  /\ swarm.pending = <<>>

\* The requests whose result the application is still to get: spawned, not
\* finished, not cancelled.
Outstanding ==
  {t \in DOMAIN chat.tasks : chat.tasks[t].state \in {"spawned", "locked"} /\ t \notin chat.cancelled}

\* C38: in ChatApp, under any sequence of key events and poll_response
\* calls, response_rx is Some exactly when mode is Loading; at most one
\* completion request is outstanding, and the response of a request
\* cancelled with Esc is never appended to the conversation.
C38_RxIffLoading ==
  chat.on =>
    /\ chat.response_rx # 0 <=> chat.mode = "Loading"
    /\ Cardinality(Outstanding) <= 1
    /\ Cardinality({t \in DOMAIN chat.tasks : chat.tasks[t].state = "locked"}) <= 1
    /\ \A i \in DOMAIN chat.conversation_head :
         chat.conversation_head[i].task \notin chat.cancelled

\* A request was cancelled with Esc, its task sent a response all the same,
\* and a later request was answered and appended.
C38_Witness ==
  /\ chat.on
  /\ Len(chat.tasks) = 2
  /\ 1 \in chat.cancelled
  /\ chat.tasks[1].state = "sent" /\ chat.tasks[1].result = "Ok"
  /\ chat.mode = "Chat"
  /\ Len(chat.conversation_head) > 0
  /\ chat.conversation_head[Len(chat.conversation_head)].task = 2

\* C39: in ChatApp, conversation_head always refers to a message whose blob
\* and those of all its predecessors have been persisted to the store, after
\* any sequence of send_message and poll_response, also when a store put
\* fails.
C39_HeadPersisted ==
  chat.on => Chain(chat.conversation_head) \subseteq chat.store

====
